---- MODULE Spec2Model ----
(***************************************************************************)
(* Fleet orchestration of rubix-simulator:                                 *)
(*   backend/rubix_node_manager.py   (RubixManager.start_nodes, main)      *)
(*   backend/rubix_restart_setup.py  (RubixRestartManager.restart_nodes)   *)
(* One behaviour is a sequence of runs over the same data directory; the   *)
(* metadata file is the only state that survives from one run to the next. *)
(* A Python dict is modelled as a sequence of values in insertion order,   *)
(* keyed by the value's "id" field.                                        *)
(***************************************************************************)
EXTENDS Integers, Sequences, FiniteSets, TLC

\* ------------------------------------------------------------ configuration
\* RubixConfig.quorum_node_count (7 in the source), scaled down for checking.
quorum_node_count == 2
\* RubixConfig.max_transaction_nodes (20 in the source), scaled down.
max_transaction_nodes == 3
min_transaction_nodes == 2
base_server_port == 20000
base_grpc_port == 10500
max_retries == 2

total_nodes == quorum_node_count + max_transaction_nodes

\* RubixConfig.node_startup_timeout (120 s in the source), scaled down.
node_startup_timeout == 4
\* time.sleep(2) between two probes of wait_for_node
probe_interval == 2
\* The longest one probe of wait_for_node takes to answer.
MaxProbeTime == 3
\* _verify_token_generation(did, max_attempts=10)
max_attempts == 10
\* RubixConfig.default_priv_key_password
default_priv_key_password == "mypassword"

\* f"node{i}"
NodeId(i) == "node" \o ToString(i)

\* The identity the node at index i answers create-did with.
DidOf(i) == "did" \o ToString(i)

PeerOf(i) == "peer" \o ToString(i)

AllIndices == 0 .. (total_nodes - 1)

\* The indices of the nodes whose create-did answer may come without a "did".
UnnamedIndices == {0}

\* A variant that gives the quorum role to one index more.
IsQuorumIndex_Inclusive(index) == index <= quorum_node_count

\* is_quorum = i < self.config.quorum_node_count
IsQuorumIndex(index) == index < quorum_node_count

\* int(node_info.id.replace("node", ""))
NodeIndex(id) == CHOOSE i \in AllIndices : NodeId(i) = id

\* ------------------------------------------------------------------ NodeInfo
\* data.get(k, default)
Get(data, k, default) == IF k \in DOMAIN data THEN data[k] ELSE default

NodeInfo(node_id, server_port, grpc_port, did, peer_id, is_quorum, status) ==
    [id |-> node_id, server_port |-> server_port, grpc_port |-> grpc_port,
     did |-> did, peer_id |-> peer_id, is_quorum |-> is_quorum, status |-> status]

to_dict(n) ==
    [id |-> n.id, server_port |-> n.server_port, grpc_port |-> n.grpc_port,
     did |-> n.did, peer_id |-> n.peer_id, is_quorum |-> n.is_quorum,
     status |-> n.status]

\* A variant that leaves the stored status unread.
from_dict_StatusDefault(data) ==
    NodeInfo(data["id"], data["server_port"], data["grpc_port"],
             Get(data, "did", ""), Get(data, "peer_id", ""),
             Get(data, "is_quorum", FALSE), "stopped")

\* A variant that gives every record it reads a new identity.
from_dict_Reissued(data) ==
    NodeInfo(data["id"], data["server_port"], data["grpc_port"],
             "reissued", Get(data, "peer_id", ""),
             Get(data, "is_quorum", FALSE), Get(data, "status", "stopped"))

from_dict(data) ==
    NodeInfo(data["id"], data["server_port"], data["grpc_port"],
             Get(data, "did", ""), Get(data, "peer_id", ""),
             Get(data, "is_quorum", FALSE), Get(data, "status", "stopped"))

\* from_dict raises KeyError on a dict without one of the keys it indexes.
WellFormed(data) == {"id", "server_port", "grpc_port"} \subseteq DOMAIN data

\* Some entry of the document makes from_dict raise.
Malformed(metadata) == \E k \in 1 .. Len(metadata) : ~WellFormed(metadata[k])

\* The entries that come before the first one from_dict raises on.
BeforeMalformed(metadata) ==
    SubSeq(metadata, 1,
           (CHOOSE k \in 1 .. Len(metadata) :
               /\ ~WellFormed(metadata[k])
               /\ \A j \in 1 .. (k - 1) : WellFormed(metadata[j])) - 1)

\* ------------------------------------------------------- insertion-ordered dict
Keys(d) == {d[k].id : k \in 1 .. Len(d)}

HasKey(d, id) == \E k \in 1 .. Len(d) : d[k].id = id

Lookup(d, id) == d[CHOOSE k \in 1 .. Len(d) : d[k].id = id]

\* d[v.id] = v : an existing key keeps its place, a new key goes last.
DictPut(d, v) ==
    IF HasKey(d, v.id)
    THEN [k \in 1 .. Len(d) |-> IF d[k].id = v.id THEN v ELSE d[k]]
    ELSE Append(d, v)

\* ------------------------------------------------------------ metadata file
\* "complete" is FALSE for a file whose JSON document was cut short.
Absent == [exists |-> FALSE, entries |-> <<>>, complete |-> TRUE]

FileOf(entries) == [exists |-> TRUE, entries |-> entries, complete |-> TRUE]

Truncated == [exists |-> TRUE, entries |-> <<>>, complete |-> FALSE]

\* The dict a fresh run stores for node i (to_dict of its NodeInfo).
StoredDict(i, did, status) ==
    to_dict(NodeInfo(NodeId(i), base_server_port + i, base_grpc_port + i,
                     did, PeerOf(i), IsQuorumIndex(i), status))

RECURSIVE Ascending(_, _)
\* The indices of S in ascending order.
Ascending(S, from) ==
    IF S = {} THEN <<>>
    ELSE IF from \in S THEN <<from>> \o Ascending(S \ {from}, from + 1)
    ELSE Ascending(S, from + 1)

RECURSIVE Reverse(_)
Reverse(s) == IF s = <<>> THEN <<>> ELSE Append(Reverse(Tail(s)), Head(s))

\* A metadata file holding the nodes of S, those of E with an empty identity;
\* "running" is the only status _save_metadata's caller ever stores.
MkEntries(S, E, rev) ==
    LET asc == Ascending(S, 0)
        ord == IF rev THEN Reverse(asc) ELSE asc
    IN [k \in 1 .. Len(ord) |->
           StoredDict(ord[k], IF ord[k] \in E THEN "" ELSE DidOf(ord[k]), "running")]

\* The entries with the key `field` taken out of the entry of node i.
Without(entries, i, field) ==
    [k \in 1 .. Len(entries) |->
        IF entries[k].id = NodeId(i)
        THEN [f \in (DOMAIN entries[k]) \ {field} |-> entries[k][f]]
        ELSE entries[k]]

\* The metadata files a first run may find in the data directory.
InitFiles ==
    { Absent,
      FileOf(<<>>),
      FileOf(MkEntries(AllIndices, {}, FALSE)),
      FileOf(MkEntries(AllIndices, {}, TRUE)),
      FileOf(MkEntries(AllIndices \ {quorum_node_count + 1}, {}, FALSE)),
      FileOf(Without(MkEntries(0 .. quorum_node_count, {}, FALSE), 0, "status")),
      FileOf(MkEntries(AllIndices, {0, quorum_node_count}, FALSE)),
      FileOf(MkEntries(AllIndices, AllIndices, FALSE)),
      FileOf(Without(MkEntries(AllIndices, {}, FALSE), 1, "grpc_port")) }

\* -------------------------------------------------------------- RubixClient
\* What one HTTP exchange with a node can come to: no answer, a non-200 status,
\* a body that is not JSON, an envelope with status false, one with status true,
\* and status true with message "Password needed" (with or without a challenge id).
Responses ==
    {"conn_error", "non200", "bad_json", "status_false", "status_true",
     "password_needed", "password_needed_no_id"}

StatusTrue(r) == r \in {"status_true", "password_needed", "password_needed_no_id"}

\* session.post(...) and response.json() raise on these; nothing catches them here.
Raises(r) == r \in {"conn_error", "bad_json"}

\* Results of a client call: the value returned, or "raise".
send_signature_response(r) ==
    IF r = "conn_error" THEN "raise"
    ELSE IF r = "non200" THEN "false"
    ELSE IF r = "bad_json" THEN "raise"
    ELSE IF ~StatusTrue(r) THEN "false"
    ELSE "true"

register_did(r, sig) ==
    IF r = "conn_error" THEN "raise"
    ELSE IF r = "non200" THEN "false"
    ELSE IF r = "bad_json" THEN "raise"
    ELSE IF r = "password_needed" THEN send_signature_response(sig)
    ELSE IF ~StatusTrue(r) THEN "false"
    ELSE "true"

add_quorum(r) ==
    IF r = "conn_error" THEN "raise"
    ELSE IF r = "non200" THEN "false"
    ELSE IF r = "bad_json" THEN "raise"
    ELSE IF ~StatusTrue(r) THEN "false"
    ELSE "true"

setup_quorum(r) ==
    IF r = "conn_error" THEN "raise"
    ELSE IF r = "non200" THEN "false"
    ELSE IF r = "bad_json" THEN "raise"
    ELSE IF ~StatusTrue(r) THEN "false"
    ELSE "true"

\* verified: _verify_token_generation saw a balance above 0 within its polls.
generate_test_tokens(r, sig, verified) ==
    IF r = "conn_error" THEN "raise"
    ELSE IF r = "non200" THEN "false"
    ELSE IF r = "bad_json" THEN "raise"
    ELSE IF r = "password_needed"
         THEN (IF send_signature_response(sig) = "true"
               THEN (IF verified THEN "true" ELSE "false")
               ELSE IF send_signature_response(sig) = "raise" THEN "raise"
               ELSE "false")
    ELSE "false"

\* The balance read, or "raise"; positive: the account holds more than 0 RBT.
get_account_balance(r, positive) ==
    IF Raises(r) THEN "raise"
    ELSE IF r = "non200" THEN "raise"
    ELSE IF ~StatusTrue(r) THEN "raise"
    ELSE IF positive THEN "positive"
    ELSE "zero"

\* create_did raises unless the envelope has status true; with_did: the result
\* of the envelope holds a "did" (result.get("did", "") is "" otherwise).
create_did(r, with_did) ==
    IF Raises(r) THEN "raise"
    ELSE IF r = "non200" THEN "raise"
    ELSE IF ~StatusTrue(r) THEN "raise"
    ELSE IF with_did THEN "created"
    ELSE "created_without_did"

\* What each client call can come to, over every response of the node.
RegisterResults == {register_did(r, sig) : r \in Responses, sig \in Responses}

AddQuorumResults == {add_quorum(r) : r \in Responses}

SetupQuorumResults == {setup_quorum(r) : r \in Responses}

GenerateResults ==
    {generate_test_tokens(r, sig, verified) :
        r \in Responses, sig \in Responses, verified \in BOOLEAN}

BalanceResults == {get_account_balance(r, positive) : r \in Responses, positive \in BOOLEAN}

CreateDidResults == {create_did(r, with_did) : r \in Responses, with_did \in BOOLEAN}

\* ------------------------------------------------------------------- state
VARIABLES
    file,                    \* rubix-data/node_metadata.json
    dirs,                    \* node ids whose working directory holds the artifacts
    script,                  \* "manager" (rubix_node_manager.py) or "restart"
    transaction_node_count,  \* start_nodes' parameter and local
    fresh,                   \* start_nodes' parameter
    pc,                      \* the statement the run is at
    i,                       \* Phase 1 loop index of start_nodes
    cursor,                  \* position in self.nodes.items() of the current loop
    nodes,                   \* self.nodes
    quorum_list,
    quorum_count,
    started_nodes,
    registration_success,
    quorum_add_success,
    quorum_setup_success,
    token_gen_success,
    attempt,                 \* Token Generation: the attempt in progress
    result,                  \* what start_nodes / restart_nodes came to
    exit_code,               \* the process exit status; -1 while running
    warned,                  \* "Some operations failed" was logged
    procs,                   \* node ids whose process this run has spawned
    reqs,                    \* <<operation, node id, payload>> requests this run has sent
    saves,                   \* calls of _save_metadata in this run
    failed,                  \* per operation, the nodes it has failed for in this run
    fatal,                   \* the event that is fatal to the run, and its node
    flow,                    \* "fresh", "adjust" or "restart", once the run has chosen
    prev_adjust,             \* the adjustments made over the metadata now on disk
    call                     \* the RubixClient call being followed on its own

vars ==
    <<file, dirs, script, transaction_node_count, fresh, pc, i, cursor, nodes,
      quorum_list, quorum_count, started_nodes, registration_success,
      quorum_add_success, quorum_setup_success, token_gen_success, attempt,
      result, exit_code, warned, procs, reqs, saves, failed, fatal, flow,
      prev_adjust, call>>

counters ==
    <<started_nodes, registration_success, quorum_add_success,
      quorum_setup_success, token_gen_success>>

disk == <<file, dirs, prev_adjust>>

params == <<script, transaction_node_count, fresh, flow>>

NoFatal == [cause |-> "none", id |-> ""]

\* The run has sent the request op to node id.
Sent(op, id) == \E r \in reqs : r[1] = op /\ r[2] = id

NoFailures == [register |-> 0, add_quorum |-> 0, setup_quorum |-> 0, generate |-> 0]

\* No client call is being followed.
NoCall ==
    [fn |-> "none", impl |-> "none", node_dir |-> TRUE, at |-> "idle",
     response |-> "none", sig_sent |-> FALSE, sig_accepted |-> FALSE,
     sig_payload |-> [id |-> "", mode |-> 0, password |-> ""],
     index |-> 0, polls |-> 0, poll_errors |-> 0, positive |-> FALSE,
     clock |-> 0, probes |-> 0, ok_started |-> -1, ok_at |-> -1,
     result |-> "none"]

\* No adjustment has run over the metadata now on disk.
NoAdjust ==
    [metadata |-> <<>>, results |-> {}, last |-> [requested |-> 0, ids |-> {}],
     before |-> {}, again |-> FALSE]

\* The record of the adjustments over one metadata document, after one more of
\* them: what each request selected, the latest request, the ids self.nodes held
\* before it, and whether the same request had been made before.
Adjusted(prev, metadata, requested, before, ids) ==
    LET kept == IF prev.metadata = metadata THEN prev.results ELSE {}
    IN [metadata |-> metadata,
        results |-> kept \cup {[requested |-> requested, ids |-> ids]},
        last |-> [requested |-> requested, ids |-> ids],
        before |-> before,
        again |-> (\E r \in kept : r.requested = requested)]

\* The values start_nodes requests are drawn from: the allowed range and one
\* value on each side of it.
RequestedCounts == (min_transaction_nodes - 1) .. (max_transaction_nodes + 1)

Init ==
    /\ file \in InitFiles
    /\ dirs \in {Keys(file.entries), Keys(file.entries) \ {NodeId(0)}}
    /\ script = "none"
    /\ transaction_node_count = 0
    /\ fresh = FALSE
    /\ pc = "idle"
    /\ i = 0
    /\ cursor = 1
    /\ nodes = <<>>
    /\ quorum_list = <<>>
    /\ quorum_count = 0
    /\ started_nodes = 0
    /\ registration_success = 0
    /\ quorum_add_success = 0
    /\ quorum_setup_success = 0
    /\ token_gen_success = 0
    /\ attempt = 1
    /\ result = "none"
    /\ exit_code = -1
    /\ warned = FALSE
    /\ procs = {}
    /\ reqs = {}
    /\ saves = 0
    /\ failed = NoFailures
    /\ fatal = NoFatal
    /\ flow = "none"
    /\ prev_adjust = NoAdjust
    /\ call = NoCall

\* A new run starts with fresh locals and an empty record of what it has done.
ResetRun ==
    /\ i' = 0
    /\ cursor' = 1
    /\ quorum_list' = <<>>
    /\ quorum_count' = 0
    /\ started_nodes' = 0
    /\ registration_success' = 0
    /\ quorum_add_success' = 0
    /\ quorum_setup_success' = 0
    /\ token_gen_success' = 0
    /\ attempt' = 1
    /\ result' = "none"
    /\ exit_code' = -1
    /\ warned' = FALSE
    /\ procs' = {}
    /\ reqs' = {}
    /\ saves' = 0
    /\ failed' = NoFailures
    /\ fatal' = NoFatal

\* start_nodes / restart_nodes returns val (or raises): control is back in main.
Return(val, cause, id) ==
    /\ result' = val
    /\ fatal' = (IF cause = "none" THEN fatal ELSE [cause |-> cause, id |-> id])
    /\ pc' = "main"

\* ------------------------------------------------- rubix_node_manager.main
\* python rubix_node_manager.py --nodes n [--fresh] | --restart
ManagerMain ==
    /\ pc \in {"idle", "exited"}
    /\ call.at = "idle"
    /\ \E n \in RequestedCounts, f \in BOOLEAN, restart \in BOOLEAN :
          /\ transaction_node_count' = (IF restart THEN 2 ELSE n)
          /\ fresh' = (IF restart THEN FALSE ELSE f)
    /\ script' = "manager"
    /\ nodes' = <<>>
    /\ pc' = "start_nodes"
    /\ flow' = "none"
    /\ ResetRun
    /\ UNCHANGED disk
    /\ UNCHANGED call

\* A host program that keeps its RubixManager calls start_nodes on it again;
\* main itself makes one call per process.
StartNodesAgain ==
    /\ pc = "main"
    /\ script = "manager"
    /\ \E n \in RequestedCounts, f \in BOOLEAN :
          /\ transaction_node_count' = n
          /\ fresh' = f
    /\ pc' = "start_nodes"
    /\ flow' = "none"
    /\ ResetRun
    /\ UNCHANGED <<disk, script, nodes>>
    /\ UNCHANGED call

\* main turns the result into the exit status; the process ends, and what it
\* held in memory ends with it.
Main_Exit ==
    /\ pc = "main"
    /\ exit_code' = (IF result = "true" THEN 0 ELSE 1)
    /\ pc' = "exited"
    /\ nodes' = <<>>
    /\ i' = 0
    /\ cursor' = 1
    /\ quorum_list' = <<>>
    /\ quorum_count' = 0
    /\ started_nodes' = 0
    /\ registration_success' = 0
    /\ quorum_add_success' = 0
    /\ quorum_setup_success' = 0
    /\ token_gen_success' = 0
    /\ UNCHANGED <<disk, params, attempt, result, warned, procs, reqs, saves, failed,
                   fatal>>
    /\ UNCHANGED call

\* ------------------------------------------------ RubixManager.start_nodes
\* json.load of the file: its entries; the empty sequence stands for both None
\* (the file cannot be read or parsed) and {} ("if not metadata" takes either).
manager_load_metadata(f) ==
    IF f.exists /\ f.complete THEN f.entries ELSE <<>>

\* A variant of the test below that lets every document through.
NotMetadata_Never(metadata) == FALSE

\* "if not metadata": None and the empty dict both count as no metadata.
NotMetadata(metadata) == metadata = <<>>

RECURSIVE QuorumRecords(_, _)
\* for node_id, node_data in metadata.items(): keep the quorum records.
QuorumRecords(acc, metadata) ==
    IF metadata = <<>> THEN acc
    ELSE QuorumRecords(
            IF from_dict(Head(metadata)).is_quorum
            THEN DictPut(acc, from_dict(Head(metadata)))
            ELSE acc,
            Tail(metadata))

RECURSIVE FirstTransactionRecords_ByPosition(_, _, _, _, _)
\* A variant that takes the records at the first `requested` indices, present or
\* not, instead of counting the records it has added.
FirstTransactionRecords_ByPosition(acc, metadata, requested, k, added) ==
    IF k >= max_transaction_nodes THEN acc
    ELSE LET node_id == NodeId(quorum_node_count + k)
         IN IF HasKey(metadata, node_id) /\ k < requested
               /\ ~from_dict(Lookup(metadata, node_id)).is_quorum
            THEN FirstTransactionRecords_ByPosition(
                    DictPut(acc, from_dict(Lookup(metadata, node_id))),
                    metadata, requested, k + 1, added + 1)
            ELSE FirstTransactionRecords_ByPosition(acc, metadata, requested,
                                                    k + 1, added)

RECURSIVE FirstTransactionRecords(_, _, _, _, _)
\* for i in range(max_transaction_nodes): take node{quorum_node_count + i}
\* while fewer than the requested number of transaction nodes were added.
FirstTransactionRecords(acc, metadata, requested, k, added) ==
    IF k >= max_transaction_nodes THEN acc
    ELSE LET node_id == NodeId(quorum_node_count + k)
         IN IF HasKey(metadata, node_id) /\ added < requested
               /\ ~from_dict(Lookup(metadata, node_id)).is_quorum
            THEN FirstTransactionRecords(
                    DictPut(acc, from_dict(Lookup(metadata, node_id))),
                    metadata, requested, k + 1, added + 1)
            ELSE FirstTransactionRecords(acc, metadata, requested, k + 1, added)

\* A variant without "self.nodes = {}": the selection is added to the map the
\* manager already holds.
AdjustedNodes_Merging(before, metadata, requested) ==
    FirstTransactionRecords(QuorumRecords(before, metadata), metadata, requested, 0, 0)

\* self.nodes after _adjust_node_count, from self.nodes before it.
AdjustedNodes(before, metadata, requested) ==
    FirstTransactionRecords(QuorumRecords(<<>>, metadata), metadata, requested, 0, 0)

\* A variant that clears the node directories whenever the fresh flow is taken.
CleanedDirs_Always(fr, d) == {}

\* "if fresh: self._cleanup()": the metadata file is unlinked ...
\* A variant of the deletion below that leaves the metadata file in place.
CleanedFile_Kept(fr, f) == f

CleanedFile(fr, f) == IF fr THEN Absent ELSE f

\* ... and the nodes directory removed with all it holds.
CleanedDirs(fr, d) == IF fr THEN {} ELSE d

\* A variant of the range check that lets every count through.
OutOfRange_Never(n) == FALSE

\* Lines 327-331: the count is below the minimum or above the maximum.
OutOfRange(n) == n < min_transaction_nodes \/ n > max_transaction_nodes

\* Lines 327-351: the range check, the choice of flow, cleanup, platform check.
StartNodes_Enter ==
    /\ pc = "start_nodes"
    /\ IF OutOfRange(transaction_node_count)
       THEN /\ Return("raise", "args", "")
            /\ UNCHANGED <<disk, params, i, cursor, nodes, quorum_list,
                           quorum_count, counters, attempt, exit_code, warned,
                           procs, reqs, saves, failed>>
       ELSE IF ~fresh /\ file.exists
       THEN /\ pc' = "adjust"
            /\ flow' = "adjust"
            /\ UNCHANGED <<disk, script, transaction_node_count, fresh, i, cursor,
                           nodes, quorum_list, quorum_count, counters, attempt,
                           result, exit_code, warned, procs, reqs, saves, failed,
                           fatal>>
       ELSE /\ flow' = "fresh"
            /\ prev_adjust' = NoAdjust
            /\ transaction_node_count' = max_transaction_nodes
            /\ file' = CleanedFile(fresh, file)
            /\ dirs' = CleanedDirs(fresh, dirs)
            /\ \E platform_ok \in BOOLEAN :
                  IF platform_ok
                  THEN /\ pc' = "p1_start"
                       /\ UNCHANGED <<result, fatal>>
                  ELSE Return("false", "platform", "")
            /\ i' = 0
            /\ quorum_list' = <<>>
            /\ UNCHANGED <<script, fresh, cursor, nodes, quorum_count, counters,
                           attempt, exit_code, warned, procs, reqs, saves, failed>>
    /\ UNCHANGED call

\* A variant of the adjustment that stores the selection it has made.
StartNodes_Adjust_Saving ==
    /\ pc = "adjust"
    /\ IF NotMetadata(manager_load_metadata(file))
       THEN /\ Return("false", "load", "")
            /\ UNCHANGED <<nodes, prev_adjust, file>>
       ELSE IF Malformed(manager_load_metadata(file))
       THEN /\ nodes' = QuorumRecords(<<>>, BeforeMalformed(manager_load_metadata(file)))
            /\ Return("raise", "malformed", "")
            /\ UNCHANGED <<prev_adjust, file>>
       ELSE /\ nodes' = AdjustedNodes(nodes, manager_load_metadata(file),
                                      transaction_node_count)
            /\ prev_adjust' = Adjusted(prev_adjust, manager_load_metadata(file),
                                        transaction_node_count, Keys(nodes),
                                        Keys(nodes'))
            /\ file' = FileOf([k \in 1 .. Len(nodes') |-> to_dict(nodes'[k])])
            /\ Return("true", "none", "")
    /\ UNCHANGED <<dirs, params, i, cursor, quorum_list, quorum_count, counters,
                   attempt, exit_code, warned, procs, reqs, saves, failed>>
    /\ UNCHANGED call

\* _adjust_node_count, and start_nodes returning what it returns.
StartNodes_Adjust ==
    /\ pc = "adjust"
    /\ IF NotMetadata(manager_load_metadata(file))
       THEN /\ Return("false", "load", "")
            /\ UNCHANGED nodes
            /\ UNCHANGED prev_adjust
       ELSE IF Malformed(manager_load_metadata(file))
       THEN /\ nodes' = QuorumRecords(<<>>, BeforeMalformed(manager_load_metadata(file)))
            /\ Return("raise", "malformed", "")
            /\ UNCHANGED prev_adjust
       ELSE /\ nodes' = AdjustedNodes(nodes, manager_load_metadata(file),
                                      transaction_node_count)
            /\ prev_adjust' = Adjusted(prev_adjust, manager_load_metadata(file),
                                        transaction_node_count, Keys(nodes),
                                        Keys(nodes'))
            /\ Return("true", "none", "")
    /\ UNCHANGED <<file, dirs, params, i, cursor, quorum_list, quorum_count, counters,
                   attempt, exit_code, warned, procs, reqs, saves, failed>>
    /\ UNCHANGED call

\* {"type": 2, "address": did}
QuorumEntry(did) == [type |-> 2, address |-> did]

\* The current node of the Phase 1 loop.
P1Id == NodeId(i)

\* _start_node_process(node_id, i): the directory and the copies come before the
\* try; only Popen's failure is turned into False.
StartNodes_StartProcess ==
    /\ pc = "p1_start"
    /\ \E out \in {"true", "false", "raise"} :
          /\ dirs' = (IF out = "raise" THEN dirs ELSE dirs \cup {P1Id})
          /\ procs' = (IF out = "true" THEN procs \cup {P1Id} ELSE procs)
          /\ IF out = "true"
             THEN pc' = "p1_wait" /\ UNCHANGED <<result, fatal>>
             ELSE Return(out, "start", P1Id)
    /\ UNCHANGED <<file, prev_adjust, params, i, cursor, nodes, quorum_list,
                   quorum_count, counters, attempt, exit_code, warned, reqs, saves,
                   failed>>
    /\ UNCHANGED call

\* A variant of the readiness wait whose result is not looked at: the node that
\* did not become ready is treated as ready.
StartNodes_WaitForNode_Unchecked ==
    /\ pc = "p1_wait"
    /\ \E ready \in BOOLEAN :
          /\ fatal' = (IF ready THEN fatal ELSE [cause |-> "wait", id |-> NodeId(i)])
    /\ pc' = "p1_did"
    /\ UNCHANGED <<disk, params, i, cursor, nodes, quorum_list, quorum_count,
                   counters, attempt, result, exit_code, warned, procs, reqs, saves,
                   failed>>
    /\ UNCHANGED call

\* A variant of the readiness wait that stops the processes started so far when
\* the node does not become ready.
StartNodes_WaitForNode_StoppingAll ==
    /\ pc = "p1_wait"
    /\ \E ready \in BOOLEAN :
          /\ IF ready
             THEN pc' = "p1_did" /\ UNCHANGED <<result, fatal, procs>>
             ELSE Return("false", "wait", P1Id) /\ procs' = {}
    /\ UNCHANGED <<disk, params, i, cursor, nodes, quorum_list, quorum_count,
                   counters, attempt, exit_code, warned, reqs, saves, failed>>
    /\ UNCHANGED call

\* client.wait_for_node(node_startup_timeout)
StartNodes_WaitForNode ==
    /\ pc = "p1_wait"
    /\ \E ready \in BOOLEAN :
          /\ IF ready
             THEN pc' = "p1_did" /\ UNCHANGED <<result, fatal>>
             ELSE Return("false", "wait", P1Id)
    /\ UNCHANGED <<disk, params, i, cursor, nodes, quorum_list, quorum_count,
                   counters, attempt, exit_code, warned, procs, reqs, saves, failed>>
    /\ UNCHANGED call

\* did, _ = client.create_did(...) for the node at this index.
CreatedDid(out, index) == IF out = "created" THEN DidOf(index) ELSE ""

\* A variant of the step below in which a node whose create_did raised is left
\* out of self.nodes and the loop goes on.
StartNodes_CreateDid_Skipping ==
    /\ pc = "p1_did"
    /\ reqs' = reqs \cup {<<"create_did", P1Id, "">>}
    /\ \E out \in CreateDidResults :
          /\ out = "created_without_did" => i \in UnnamedIndices
          /\ nodes' = (IF out = "raise" THEN nodes
                       ELSE DictPut(nodes,
                               NodeInfo(P1Id, base_server_port + i, base_grpc_port + i,
                                        CreatedDid(out, i), PeerOf(i),
                                        IsQuorumIndex(i), "running")))
          /\ quorum_list' = (IF IsQuorumIndex(i) /\ out # "raise"
                             THEN Append(quorum_list, QuorumEntry(CreatedDid(out, i)))
                             ELSE quorum_list)
          /\ fatal' = (IF out = "raise" THEN [cause |-> "create_did", id |-> P1Id]
                       ELSE fatal)
          /\ IF i + 1 < quorum_node_count + transaction_node_count
             THEN /\ i' = i + 1
                  /\ pc' = "p1_start"
                  /\ UNCHANGED <<cursor, result>>
             ELSE IF nodes' = <<>>
             THEN /\ pc' = "main"
                  /\ result' = "true"
                  /\ UNCHANGED <<i, cursor>>
             ELSE /\ pc' = "register"
                  /\ cursor' = 1
                  /\ UNCHANGED <<i, result>>
    /\ UNCHANGED <<disk, params, quorum_count, counters, attempt, exit_code,
                   warned, procs, saves, failed>>
    /\ UNCHANGED call

\* A variant of the step below that sends the quorum list, as far as it has
\* got, to each node as soon as its identity is created.
StartNodes_CreateDid_Distributing ==
    /\ pc = "p1_did"
    /\ \E out \in CreateDidResults :
          /\ out = "created_without_did" => i \in UnnamedIndices
          /\ IF out = "raise"
             THEN /\ Return("false", "create_did", P1Id)
                  /\ reqs' = reqs \cup {<<"create_did", P1Id, "">>}
                  /\ UNCHANGED <<i, cursor, nodes, quorum_list>>
             ELSE /\ nodes' = DictPut(nodes,
                                 NodeInfo(P1Id, base_server_port + i, base_grpc_port + i,
                                          CreatedDid(out, i), PeerOf(i),
                                          IsQuorumIndex(i), "running"))
                  /\ quorum_list' = (IF IsQuorumIndex(i)
                                     THEN Append(quorum_list, QuorumEntry(CreatedDid(out, i)))
                                     ELSE quorum_list)
                  /\ reqs' = reqs \cup {<<"create_did", P1Id, "">>,
                                        <<"add_quorum", P1Id, quorum_list'>>}
                  /\ IF i + 1 < quorum_node_count + transaction_node_count
                     THEN /\ i' = i + 1
                          /\ pc' = "p1_start"
                          /\ UNCHANGED cursor
                     ELSE /\ pc' = "register"
                          /\ cursor' = 1
                          /\ UNCHANGED i
                  /\ UNCHANGED <<result, fatal>>
    /\ UNCHANGED <<disk, params, quorum_count, counters, attempt, exit_code,
                   warned, procs, saves, failed>>
    /\ UNCHANGED call

\* create_did, the NodeInfo stored, the quorum list entry, and the loop's step.
StartNodes_CreateDid ==
    /\ pc = "p1_did"
    /\ reqs' = reqs \cup {<<"create_did", P1Id, "">>}
    /\ \E out \in CreateDidResults :
          /\ out = "created_without_did" => i \in UnnamedIndices
          /\ IF out = "raise"
             THEN /\ Return("false", "create_did", P1Id)
                  /\ UNCHANGED <<i, cursor, nodes, quorum_list>>
             ELSE /\ nodes' = DictPut(nodes,
                                 NodeInfo(P1Id, base_server_port + i, base_grpc_port + i,
                                          CreatedDid(out, i), PeerOf(i),
                                          IsQuorumIndex(i), "running"))
                  /\ quorum_list' = (IF IsQuorumIndex(i)
                                     THEN Append(quorum_list, QuorumEntry(CreatedDid(out, i)))
                                     ELSE quorum_list)
                  /\ IF i + 1 < quorum_node_count + transaction_node_count
                     THEN /\ i' = i + 1
                          /\ pc' = "p1_start"
                          /\ UNCHANGED cursor
                     ELSE /\ pc' = "register"
                          /\ cursor' = 1
                          /\ UNCHANGED i
                  /\ UNCHANGED <<result, fatal>>
    /\ UNCHANGED <<disk, params, quorum_count, counters, attempt, exit_code,
                   warned, procs, saves, failed>>
    /\ UNCHANGED call

\* The node the current loop over self.nodes.items() is at.
Current == nodes[cursor]

\* The loop goes to its next node, or the run to its next phase.
Advance(loop, next_phase) ==
    IF cursor < Len(nodes)
    THEN cursor' = cursor + 1 /\ pc' = loop
    ELSE cursor' = 1 /\ pc' = next_phase

\* The operation op came back False for the current node, for good.
Failure(op) == [failed EXCEPT ![op] = @ + 1]

\* A variant of Phase 2 in which a node whose registration comes back False is
\* given a new identity in place of the one it has.
StartNodes_Register_Recreating ==
    /\ pc = "register"
    /\ reqs' = reqs \cup {<<"register", Current.id, Current.did>>}
    /\ \E out \in RegisterResults :
          /\ IF out = "raise"
                THEN /\ Return("raise", "transport", Current.id)
                     /\ UNCHANGED <<cursor, registration_success, failed, nodes>>
                ELSE /\ registration_success' =
                           (IF out = "true" THEN registration_success + 1
                            ELSE registration_success)
                     /\ failed' = (IF out = "false" THEN Failure("register") ELSE failed)
                     /\ nodes' = (IF out = "false"
                                  THEN DictPut(nodes, [Current EXCEPT !.did = "recreated"])
                                  ELSE nodes)
                     /\ Advance("register", "add_quorum")
                     /\ UNCHANGED <<result, fatal>>
    /\ UNCHANGED <<disk, params, i, quorum_list, quorum_count,
                   started_nodes, quorum_add_success, quorum_setup_success,
                   token_gen_success, attempt, exit_code, warned, procs, saves>>
    /\ UNCHANGED call

\* Phase 2: DID Registration
StartNodes_Register ==
    /\ pc = "register"
    /\ reqs' = reqs \cup {<<"register", Current.id, Current.did>>}
    /\ \E out \in RegisterResults :
          /\ IF out = "raise"
                THEN /\ Return("raise", "transport", Current.id)
                     /\ UNCHANGED <<cursor, registration_success, failed>>
                ELSE /\ registration_success' =
                           (IF out = "true" THEN registration_success + 1
                            ELSE registration_success)
                     /\ failed' = (IF out = "false" THEN Failure("register") ELSE failed)
                     /\ Advance("register", "add_quorum")
                     /\ UNCHANGED <<result, fatal>>
    /\ UNCHANGED <<disk, params, i, nodes, quorum_list, quorum_count,
                   started_nodes, quorum_add_success, quorum_setup_success,
                   token_gen_success, attempt, exit_code, warned, procs, saves>>
    /\ UNCHANGED call

\* A variant of Phase 3 that gives up at the first node whose add_quorum comes
\* back False.
StartNodes_AddQuorum_Strict ==
    /\ pc = "add_quorum"
    /\ reqs' = reqs \cup {<<"add_quorum", Current.id, quorum_list>>}
    /\ \E out \in AddQuorumResults :
          /\ IF out = "raise"
                THEN /\ Return("raise", "transport", Current.id)
                     /\ UNCHANGED <<cursor, quorum_add_success, failed>>
                ELSE IF out = "false"
                THEN /\ failed' = Failure("add_quorum")
                     /\ Return("false", "none", "")
                     /\ UNCHANGED <<cursor, quorum_add_success>>
                ELSE /\ quorum_add_success' = quorum_add_success + 1
                     /\ Advance("add_quorum", "setup_quorum")
                     /\ UNCHANGED <<failed, result, fatal>>
    /\ UNCHANGED <<disk, params, i, nodes, quorum_list, quorum_count,
                   started_nodes, registration_success, quorum_setup_success,
                   token_gen_success, attempt, exit_code, warned, procs, saves>>
    /\ UNCHANGED call

\* Phase 3: Quorum List Distribution
StartNodes_AddQuorum ==
    /\ pc = "add_quorum"
    /\ reqs' = reqs \cup {<<"add_quorum", Current.id, quorum_list>>}
    /\ \E out \in AddQuorumResults :
          /\ IF out = "raise"
                THEN /\ Return("raise", "transport", Current.id)
                     /\ UNCHANGED <<cursor, quorum_add_success, failed>>
                ELSE /\ quorum_add_success' =
                           (IF out = "true" THEN quorum_add_success + 1
                            ELSE quorum_add_success)
                     /\ failed' = (IF out = "false" THEN Failure("add_quorum") ELSE failed)
                     /\ Advance("add_quorum", "setup_quorum")
                     /\ UNCHANGED <<result, fatal>>
    /\ UNCHANGED <<disk, params, i, nodes, quorum_list, quorum_count,
                   started_nodes, registration_success, quorum_setup_success,
                   token_gen_success, attempt, exit_code, warned, procs, saves>>
    /\ UNCHANGED call

\* Phase 4: Quorum Setup, for the nodes with is_quorum
StartNodes_SetupQuorum ==
    /\ pc = "setup_quorum"
    /\ IF Current.is_quorum
       THEN /\ reqs' = reqs \cup {<<"setup_quorum", Current.id, Current.did>>}
            /\ \E out \in SetupQuorumResults :
                  /\ IF out = "raise"
                        THEN /\ Return("raise", "transport", Current.id)
                             /\ UNCHANGED <<cursor, quorum_setup_success, failed>>
                        ELSE /\ quorum_setup_success' =
                                   (IF out = "true" THEN quorum_setup_success + 1
                                    ELSE quorum_setup_success)
                             /\ failed' = (IF out = "false" THEN Failure("setup_quorum") ELSE failed)
                             /\ Advance("setup_quorum", "tokens")
                             /\ UNCHANGED <<result, fatal>>
       ELSE /\ Advance("setup_quorum", "tokens")
            /\ UNCHANGED <<reqs, quorum_setup_success, failed, result, fatal>>
    /\ UNCHANGED <<disk, params, i, nodes, quorum_list, quorum_count,
                   started_nodes, registration_success, quorum_add_success,
                   token_gen_success, attempt, exit_code, warned, procs, saves>>
    /\ UNCHANGED call

\* Phase 5: one attempt's generate_test_tokens call
StartNodes_GenerateTokens ==
    /\ pc = "tokens"
    /\ reqs' = reqs \cup {<<"generate", Current.id, Current.did>>}
    /\ \E out \in GenerateResults :
          /\ IF out = "raise"
                THEN /\ Return("raise", "transport", Current.id)
                     /\ UNCHANGED <<cursor, attempt, failed>>
                ELSE IF out = "true"
                THEN /\ pc' = "balance"
                     /\ UNCHANGED <<cursor, attempt, failed, result, fatal>>
                ELSE IF attempt = max_retries
                THEN /\ Advance("tokens", "save")
                     /\ attempt' = 1
                     /\ failed' = Failure("generate")
                     /\ UNCHANGED <<result, fatal>>
                ELSE /\ attempt' = attempt + 1
                     /\ UNCHANGED <<pc, cursor, failed, result, fatal>>
    /\ UNCHANGED <<disk, params, i, nodes, quorum_list, quorum_count, counters,
                   exit_code, warned, procs, saves>>
    /\ UNCHANGED call

\* A variant of the balance read that counts the node once for each attempt it
\* has taken.
StartNodes_CheckBalance_CountingAttempts ==
    /\ pc = "balance"
    /\ \E out \in BalanceResults :
          /\ IF out = "positive"
                THEN /\ token_gen_success' = token_gen_success + attempt
                     /\ Advance("tokens", "save")
                     /\ attempt' = 1
                     /\ UNCHANGED failed
                ELSE IF out = "zero" /\ attempt < max_retries
                THEN /\ attempt' = attempt + 1
                     /\ pc' = "tokens"
                     /\ UNCHANGED <<cursor, token_gen_success, failed>>
                ELSE /\ Advance("tokens", "save")
                     /\ attempt' = 1
                     /\ failed' = Failure("generate")
                     /\ UNCHANGED token_gen_success
    /\ UNCHANGED <<disk, params, i, nodes, quorum_list, quorum_count,
                   started_nodes, registration_success, quorum_add_success,
                   quorum_setup_success, result, exit_code, warned, procs, reqs,
                   saves, fatal>>
    /\ UNCHANGED call

\* A variant of the balance read that does not count the attempt made when the
\* balance is still zero.
StartNodes_CheckBalance_Unbounded ==
    /\ pc = "balance"
    /\ \E out \in BalanceResults :
          /\ IF out = "positive"
                THEN /\ token_gen_success' = token_gen_success + 1
                     /\ Advance("tokens", "save")
                     /\ attempt' = 1
                     /\ UNCHANGED failed
                ELSE IF out = "zero"
                THEN /\ pc' = "tokens"
                     /\ UNCHANGED <<attempt, cursor, token_gen_success, failed>>
                ELSE /\ Advance("tokens", "save")
                     /\ attempt' = 1
                     /\ failed' = Failure("generate")
                     /\ UNCHANGED token_gen_success
    /\ UNCHANGED <<disk, params, i, nodes, quorum_list, quorum_count,
                   started_nodes, registration_success, quorum_add_success,
                   quorum_setup_success, result, exit_code, warned, procs, reqs,
                   saves, fatal>>
    /\ UNCHANGED call

\* Phase 5: the balance read after a call that returned True
StartNodes_CheckBalance ==
    /\ pc = "balance"
    /\ \E out \in BalanceResults :
          /\ IF out = "positive"
                THEN /\ token_gen_success' = token_gen_success + 1
                     /\ Advance("tokens", "save")
                     /\ attempt' = 1
                     /\ UNCHANGED failed
                ELSE IF out = "zero" /\ attempt < max_retries
                THEN /\ attempt' = attempt + 1
                     /\ pc' = "tokens"
                     /\ UNCHANGED <<cursor, token_gen_success, failed>>
                ELSE /\ Advance("tokens", "save")
                     /\ attempt' = 1
                     /\ failed' = Failure("generate")
                     /\ UNCHANGED token_gen_success
    /\ UNCHANGED <<disk, params, i, nodes, quorum_list, quorum_count,
                   started_nodes, registration_success, quorum_add_success,
                   quorum_setup_success, result, exit_code, warned, procs, reqs,
                   saves, fatal>>
    /\ UNCHANGED call

\* The document _save_metadata dumps.
MetadataOf(ns) == [k \in 1 .. Len(ns) |-> to_dict(ns[k])]

\* The file after _save_metadata: open(.., 'w') may fail, which leaves the file
\* alone, and json.dump may fail after open has emptied it.
SavedFile(f, ns, out) ==
    IF out = "ok" THEN FileOf(MetadataOf(ns))
    ELSE IF out = "dump_failed" THEN Truncated
    ELSE f

\* Phase 6: Finalization
StartNodes_SaveMetadata ==
    /\ pc = "save"
    /\ saves' = saves + 1
    /\ \E out \in {"ok", "open_failed", "dump_failed"} :
          /\ file' = SavedFile(file, nodes, out)
    /\ pc' = "summary"
    /\ UNCHANGED <<dirs, prev_adjust, params, i, cursor, nodes, quorum_list,
                   quorum_count, counters, attempt, result, exit_code, warned,
                   procs, reqs, failed, fatal>>
    /\ UNCHANGED call

\* A variant in which the value returned tells whether the metadata was stored.
StartNodes_Result_SaveChecked ==
    IF file = FileOf(MetadataOf(nodes)) THEN "true" ELSE "false"

\* Lines 527-534: the warning, and the value start_nodes returns.
StartNodes_Result == "true"

StartNodes_Summary ==
    /\ pc = "summary"
    /\ script = "manager"
    /\ warned' = (\/ registration_success < Len(nodes)
                  \/ quorum_add_success < Len(nodes)
                  \/ token_gen_success < Len(nodes))
    /\ Return(StartNodes_Result, "none", "")
    /\ UNCHANGED <<disk, params, i, cursor, nodes, quorum_list, quorum_count,
                   counters, attempt, exit_code, procs, reqs, saves, failed>>
    /\ UNCHANGED call

\* ------------------------------------ RubixRestartManager.restart_nodes
\* python rubix_restart_setup.py
RestartMain ==
    /\ pc \in {"idle", "exited"}
    /\ call.at = "idle"
    /\ script' = "restart"
    /\ transaction_node_count' = 0
    /\ fresh' = FALSE
    /\ nodes' = <<>>
    /\ pc' = "r_load"
    /\ flow' = "restart"
    /\ ResetRun
    /\ prev_adjust' = NoAdjust
    /\ UNCHANGED <<file, dirs>>
    /\ UNCHANGED call

RECURSIVE LoadedNodes(_, _)
\* for node_id, node_data in metadata.items(): self.nodes[node_id] = from_dict(..)
LoadedNodes(acc, metadata) ==
    IF metadata = <<>> THEN acc
    ELSE LoadedNodes(DictPut(acc, from_dict(Head(metadata))), Tail(metadata))

\* sum(1 for node in self.nodes.values() if node.did)
NodesWithDids(ns) == Cardinality({k \in 1 .. Len(ns) : ns[k].did # ""})

\* Phase 1: _load_metadata
Restart_LoadMetadata ==
    /\ pc = "r_load"
    /\ IF ~file.exists \/ ~file.complete \/ NotMetadata(file.entries)
       THEN /\ Return("false", "load", "")
            /\ UNCHANGED nodes
       ELSE IF Malformed(file.entries)
       THEN /\ nodes' = LoadedNodes(nodes, BeforeMalformed(file.entries))
            /\ Return("false", "load", "")
       ELSE /\ nodes' = LoadedNodes(nodes, file.entries)
            /\ IF NodesWithDids(nodes') = 0
               THEN Return("false", "load", "")
               ELSE pc' = "r_verify" /\ UNCHANGED <<result, fatal>>
    /\ UNCHANGED <<disk, params, i, cursor, quorum_list, quorum_count, counters,
                   attempt, exit_code, warned, procs, reqs, saves, failed>>
    /\ UNCHANGED call

\* A variant of the restart in which the directories are not looked at.
Restart_VerifyDirectories_Skipped ==
    /\ pc = "r_verify"
    /\ pc' = "r_start"
    /\ UNCHANGED <<result, fatal>>
    /\ UNCHANGED <<disk, params, i, cursor, nodes, quorum_list, quorum_count,
                   counters, attempt, exit_code, warned, procs, reqs, saves, failed>>
    /\ UNCHANGED call

\* Phase 2: _verify_node_directories
Restart_VerifyDirectories ==
    /\ pc = "r_verify"
    /\ IF Keys(nodes) \subseteq dirs
       THEN pc' = "r_start" /\ UNCHANGED <<result, fatal>>
       ELSE Return("false", "verify", "")
    /\ UNCHANGED <<disk, params, i, cursor, nodes, quorum_list, quorum_count,
                   counters, attempt, exit_code, warned, procs, reqs, saves, failed>>
    /\ UNCHANGED call

\* Phase 3: _start_node_process(node_info); every failure in it comes back False.
Restart_StartProcess ==
    /\ pc = "r_start"
    /\ \E out \in {"true", "false"} :
          /\ procs' = (IF out = "true" THEN procs \cup {Current.id} ELSE procs)
          /\ IF out = "true"
             THEN pc' = "r_wait" /\ UNCHANGED <<result, fatal>>
             ELSE Return("false", "start", Current.id)
    /\ UNCHANGED <<disk, params, i, cursor, nodes, quorum_list, quorum_count,
                   counters, attempt, exit_code, warned, reqs, saves, failed>>
    /\ UNCHANGED call

\* Phase 3: client.wait_for_node (getalldid), then started_nodes += 1
Restart_WaitForNode ==
    /\ pc = "r_wait"
    /\ \E ready \in BOOLEAN :
          /\ IF ready
             THEN /\ started_nodes' = started_nodes + 1
                  /\ Advance("r_start", "r_register")
                  /\ UNCHANGED <<result, fatal>>
             ELSE /\ Return("false", "wait", Current.id)
                  /\ UNCHANGED <<started_nodes, cursor>>
    /\ UNCHANGED <<disk, params, i, nodes, quorum_list, quorum_count,
                   registration_success, quorum_add_success,
                   quorum_setup_success, token_gen_success, attempt, exit_code,
                   warned, procs, reqs, saves, failed>>
    /\ UNCHANGED call

\* Phase 4: DID Registration; a node without a DID is skipped.
Restart_Register ==
    /\ pc = "r_register"
    /\ IF Current.did = ""
       THEN /\ Advance("r_register", "r_build")
            /\ UNCHANGED <<reqs, registration_success, failed, result, fatal>>
       ELSE /\ reqs' = reqs \cup {<<"register", Current.id, Current.did>>}
            /\ \E out \in RegisterResults :
                  /\ IF out = "raise"
                        THEN /\ Return("raise", "transport", Current.id)
                             /\ UNCHANGED <<cursor, registration_success, failed>>
                        ELSE /\ registration_success' =
                                   (IF out = "true" THEN registration_success + 1
                                    ELSE registration_success)
                             /\ failed' = (IF out = "false" THEN Failure("register") ELSE failed)
                             /\ Advance("r_register", "r_build")
                             /\ UNCHANGED <<result, fatal>>
    /\ UNCHANGED <<disk, params, i, nodes, quorum_list, quorum_count,
                   started_nodes, quorum_add_success, quorum_setup_success,
                   token_gen_success, attempt, exit_code, warned, procs, saves>>
    /\ UNCHANGED call

RECURSIVE BuildQuorumList(_)
\* Lines 361-369: an entry for every node with is_quorum and a DID.
BuildQuorumList(ns) ==
    IF ns = <<>> THEN <<>>
    ELSE (IF Head(ns).is_quorum /\ Head(ns).did # ""
          THEN <<QuorumEntry(Head(ns).did)>>
          ELSE <<>>) \o BuildQuorumList(Tail(ns))

\* Phase 5: the quorum list is built from the loaded nodes.
Restart_BuildQuorumList ==
    /\ pc = "r_build"
    /\ quorum_list' = BuildQuorumList(nodes)
    /\ quorum_count' = Len(BuildQuorumList(nodes))
    /\ pc' = "r_add_quorum"
    /\ UNCHANGED <<disk, params, i, cursor, nodes, counters, attempt, result,
                   exit_code, warned, procs, reqs, saves, failed, fatal>>
    /\ UNCHANGED call

\* Phase 5: the list goes to every node.
Restart_AddQuorum ==
    /\ pc = "r_add_quorum"
    /\ reqs' = reqs \cup {<<"add_quorum", Current.id, quorum_list>>}
    /\ \E out \in AddQuorumResults :
          /\ IF out = "raise"
                THEN /\ Return("raise", "transport", Current.id)
                     /\ UNCHANGED <<cursor, quorum_add_success, failed>>
                ELSE /\ quorum_add_success' =
                           (IF out = "true" THEN quorum_add_success + 1
                            ELSE quorum_add_success)
                     /\ failed' = (IF out = "false" THEN Failure("add_quorum") ELSE failed)
                     /\ Advance("r_add_quorum", "r_setup_quorum")
                     /\ UNCHANGED <<result, fatal>>
    /\ UNCHANGED <<disk, params, i, nodes, quorum_list, quorum_count,
                   started_nodes, registration_success, quorum_setup_success,
                   token_gen_success, attempt, exit_code, warned, procs, saves>>
    /\ UNCHANGED call

\* Phase 6: Quorum Setup, for the nodes with is_quorum and a DID
Restart_SetupQuorum ==
    /\ pc = "r_setup_quorum"
    /\ IF Current.is_quorum /\ Current.did # ""
       THEN /\ reqs' = reqs \cup {<<"setup_quorum", Current.id, Current.did>>}
            /\ \E out \in SetupQuorumResults :
                  /\ IF out = "raise"
                        THEN /\ Return("raise", "transport", Current.id)
                             /\ UNCHANGED <<cursor, quorum_setup_success, failed>>
                        ELSE /\ quorum_setup_success' =
                                   (IF out = "true" THEN quorum_setup_success + 1
                                    ELSE quorum_setup_success)
                             /\ failed' = (IF out = "false" THEN Failure("setup_quorum") ELSE failed)
                             /\ Advance("r_setup_quorum", "r_tokens")
                             /\ UNCHANGED <<result, fatal>>
       ELSE /\ Advance("r_setup_quorum", "r_tokens")
            /\ UNCHANGED <<reqs, quorum_setup_success, failed, result, fatal>>
    /\ UNCHANGED <<disk, params, i, nodes, quorum_list, quorum_count,
                   started_nodes, registration_success, quorum_add_success,
                   token_gen_success, attempt, exit_code, warned, procs, saves>>
    /\ UNCHANGED call

\* Phase 7: one attempt's generate_test_tokens call; a node without a DID is skipped.
Restart_GenerateTokens ==
    /\ pc = "r_tokens"
    /\ IF Current.did = ""
       THEN /\ Advance("r_tokens", "r_summary")
            /\ UNCHANGED <<reqs, attempt, failed, result, fatal>>
       ELSE /\ reqs' = reqs \cup {<<"generate", Current.id, Current.did>>}
            /\ \E out \in GenerateResults :
                  /\ IF out = "raise"
                        THEN /\ Return("raise", "transport", Current.id)
                             /\ UNCHANGED <<cursor, attempt, failed>>
                        ELSE IF out = "true"
                        THEN /\ pc' = "r_balance"
                             /\ UNCHANGED <<cursor, attempt, failed, result, fatal>>
                        ELSE IF attempt = max_retries
                        THEN /\ Advance("r_tokens", "r_summary")
                             /\ attempt' = 1
                             /\ failed' = Failure("generate")
                             /\ UNCHANGED <<result, fatal>>
                        ELSE /\ attempt' = attempt + 1
                             /\ UNCHANGED <<pc, cursor, failed, result, fatal>>
    /\ UNCHANGED <<disk, params, i, nodes, quorum_list, quorum_count, counters,
                   exit_code, warned, procs, saves>>
    /\ UNCHANGED call

\* Phase 7: the balance read after a call that returned True
Restart_CheckBalance ==
    /\ pc = "r_balance"
    /\ \E out \in BalanceResults :
          /\ IF out = "positive"
                THEN /\ token_gen_success' = token_gen_success + 1
                     /\ Advance("r_tokens", "r_summary")
                     /\ attempt' = 1
                     /\ UNCHANGED failed
                ELSE IF out = "zero" /\ attempt < max_retries
                THEN /\ attempt' = attempt + 1
                     /\ pc' = "r_tokens"
                     /\ UNCHANGED <<cursor, token_gen_success, failed>>
                ELSE /\ Advance("r_tokens", "r_summary")
                     /\ attempt' = 1
                     /\ failed' = Failure("generate")
                     /\ UNCHANGED token_gen_success
    /\ UNCHANGED <<disk, params, i, nodes, quorum_list, quorum_count,
                   started_nodes, registration_success, quorum_add_success,
                   quorum_setup_success, result, exit_code, warned, procs, reqs,
                   saves, fatal>>
    /\ UNCHANGED call

\* Lines 475-483: the counts restart_nodes compares with len(self.nodes).
\* A variant of the comparison below that takes the nodes with an identity as
\* the total of the registration and issuance phases.
RestartNodes_SomeFailed_AmongIdentified ==
    \/ started_nodes < Len(nodes)
    \/ registration_success < NodesWithDids(nodes)
    \/ quorum_add_success < Len(nodes)
    \/ token_gen_success < NodesWithDids(nodes)

RestartNodes_SomeFailed ==
    \/ started_nodes < Len(nodes)
    \/ registration_success < Len(nodes)
    \/ quorum_add_success < Len(nodes)
    \/ token_gen_success < Len(nodes)

\* Phase 8: Summary
Restart_Summary ==
    /\ pc = "r_summary"
    /\ warned' = RestartNodes_SomeFailed
    /\ Return(IF RestartNodes_SomeFailed THEN "false" ELSE "true", "none", "")
    /\ UNCHANGED <<disk, params, i, cursor, nodes, quorum_list, quorum_count,
                   counters, attempt, exit_code, procs, reqs, saves, failed>>
    /\ UNCHANGED call

\* ------------------------------------------------ RubixClient, call by call
\* The state of a run; a client call followed on its own leaves it alone.
run_state ==
    <<file, dirs, script, transaction_node_count, fresh, pc, i, cursor, nodes,
      quorum_list, quorum_count, started_nodes, registration_success,
      quorum_add_success, quorum_setup_success, token_gen_success, attempt,
      result, exit_code, warned, procs, reqs, saves, failed, fatal, flow,
      prev_adjust>>

ClientCalls == {"register_did", "generate_test_tokens", "wait_for_node"}

\* Both scripts have a RubixClient; wait_for_node is where the two differ.
ClientImpls == {"manager", "restart"}

\* result.get("id", ""), result.get("mode", 0) of a "Password needed" answer
ChallengeOf(r) ==
    IF r = "password_needed" THEN [id |-> "c1", mode |-> 1]
    ELSE [id |-> "", mode |-> 0]

\* "Password needed": status true with that message, with or without an id.
PasswordNeeded(r) == r \in {"password_needed", "password_needed_no_id"}

\* payload = {"id": sig_id, "mode": mode, "password": password}
SignaturePayload(challenge, password) ==
    [id |-> challenge.id, mode |-> challenge.mode, password |-> password]

\* The call returns val (or raises).
CallDone(val) == [call EXCEPT !.at = "done", !.result = val]

\* A caller makes a call on a client; the calls followed one by one are those of
\* a client no run is using.
Client_Call ==
    /\ pc = "idle"
    /\ call.at \in {"idle", "done"}
    /\ \E fn \in ClientCalls, impl \in ClientImpls, node_dir \in BOOLEAN :
          /\ fn # "wait_for_node" => impl = "manager" /\ node_dir
          /\ impl = "manager" => node_dir
          /\ call' = [NoCall EXCEPT !.fn = fn, !.impl = impl, !.node_dir = node_dir,
                                    !.at = (IF fn = "wait_for_node" THEN "enter"
                                            ELSE "post")]
    /\ UNCHANGED run_state

\* register_did: the POST to /api/register-did and what is made of the answer.
RegisterDid_Post ==
    /\ call.fn = "register_did"
    /\ call.at = "post"
    /\ \E r \in Responses :
          call' =
             IF r = "conn_error" THEN [CallDone("raise") EXCEPT !.response = r]
             ELSE IF r = "non200" THEN [CallDone("false") EXCEPT !.response = r]
             ELSE IF r = "bad_json" THEN [CallDone("raise") EXCEPT !.response = r]
             ELSE IF PasswordNeeded(r) /\ ChallengeOf(r).id # ""
             THEN [call EXCEPT !.response = r, !.at = "signature"]
             ELSE IF ~StatusTrue(r) THEN [CallDone("false") EXCEPT !.response = r]
             ELSE [CallDone("true") EXCEPT !.response = r]
    /\ UNCHANGED run_state

\* generate_test_tokens: the POST to /api/generate-test-token.
GenerateTestTokens_Post ==
    /\ call.fn = "generate_test_tokens"
    /\ call.at = "post"
    /\ \E r \in Responses :
          call' =
             IF r = "conn_error" THEN [CallDone("raise") EXCEPT !.response = r]
             ELSE IF r = "non200" THEN [CallDone("false") EXCEPT !.response = r]
             ELSE IF r = "bad_json" THEN [CallDone("raise") EXCEPT !.response = r]
             ELSE IF PasswordNeeded(r) /\ ChallengeOf(r).id # ""
             THEN [call EXCEPT !.response = r, !.at = "signature"]
             ELSE [CallDone("false") EXCEPT !.response = r]
    /\ UNCHANGED run_state

\* _send_signature_response, and what its caller does with the value.
SendSignatureResponse ==
    /\ call.at = "signature"
    /\ \E sig \in Responses :
          LET out == send_signature_response(sig)
              sent == [call EXCEPT
                         !.sig_sent = TRUE,
                         !.sig_accepted = (out = "true"),
                         !.sig_payload =
                             SignaturePayload(ChallengeOf(call.response),
                                              default_priv_key_password)]
          IN call' =
                IF call.fn = "register_did"
                THEN [sent EXCEPT !.at = "done", !.result = out]
                ELSE IF out = "true" THEN [sent EXCEPT !.at = "verify"]
                ELSE [sent EXCEPT !.at = "done", !.result = out]
    /\ UNCHANGED run_state

\* A variant of the poll below in which a poll that fails is made again without
\* being counted.
VerifyTokenGeneration_Poll_ErrorsFree ==
    /\ call.at = "verify"
    /\ \E out \in BalanceResults :
          LET polled == [call EXCEPT
                           !.index = (IF out = "raise" THEN @ ELSE @ + 1),
                           !.polls = @ + 1,
                           !.poll_errors = (IF out = "raise" THEN @ + 1 ELSE @)]
          IN call' =
                IF out = "positive"
                THEN [polled EXCEPT !.positive = TRUE, !.at = "done", !.result = "true"]
                ELSE IF polled.index = max_attempts
                THEN [polled EXCEPT !.at = "done", !.result = "false"]
                ELSE polled
    /\ UNCHANGED run_state

\* _verify_token_generation: one turn of "for i in range(max_attempts)".
VerifyTokenGeneration_Poll ==
    /\ call.at = "verify"
    /\ \E out \in BalanceResults :
          LET polled == [call EXCEPT
                           !.index = @ + 1,
                           !.polls = @ + 1,
                           !.poll_errors = (IF out = "raise" THEN @ + 1 ELSE @)]
          IN call' =
                IF out = "positive"
                THEN [polled EXCEPT !.positive = TRUE, !.at = "done", !.result = "true"]
                ELSE IF polled.index = max_attempts
                THEN [polled EXCEPT !.at = "done", !.result = "false"]
                ELSE polled
    /\ UNCHANGED run_state

\* What one probe of wait_for_node can come to: for the manager the GET of
\* /api/basic-info, for the restart script the run of "rubixgoplatform getalldid".
ProbeOutcomes(impl) ==
    IF impl = "manager"
    THEN {"status_200", "status_500", "request_exception"}
    ELSE {"rc0_got_all_did", "rc0_address", "rc0_other_output", "rc1_got_all_did",
          "exception"}

\* The probe has succeeded: the node answered 200, or getalldid ended with
\* status 0 and printed its dids.
ProbeSucceeded(o) == o \in {"status_200", "rc0_got_all_did", "rc0_address"}

ProbeTimes == 0 .. MaxProbeTime

\* A variant of the probe that lets the exception of a failed probe through.
wait_for_node_probe_Uncaught(impl, o) ==
    IF o \in {"request_exception", "exception"} THEN "raise"
    ELSE IF ProbeSucceeded(o) THEN "ready"
    ELSE "retry"

\* The body of the probe loop: "ready" where wait_for_node returns True, "retry"
\* where it sleeps and goes round again.
wait_for_node_probe(impl, o) ==
    IF impl = "manager"
    THEN (IF o = "request_exception" THEN "retry"
          ELSE IF o = "status_200" THEN "ready"
          ELSE "retry")
    ELSE (IF o = "exception" THEN "retry"
          ELSE IF o \in {"rc0_got_all_did", "rc0_address"} THEN "ready"
          ELSE "retry")

\* wait_for_node up to its loop: the restart script's client gives up at once
\* without a node directory.
WaitForNode_Enter ==
    /\ call.fn = "wait_for_node"
    /\ call.at = "enter"
    /\ call' = IF call.impl = "restart" /\ ~call.node_dir
               THEN CallDone("false")
               ELSE [call EXCEPT !.at = "probe", !.clock = 0]
    /\ UNCHANGED run_state

\* One turn of "while time.time() - start_time < timeout": the probe, which
\* takes its time, and the sleep after a probe that did not succeed.
WaitForNode_Probe ==
    /\ call.fn = "wait_for_node"
    /\ call.at = "probe"
    /\ IF call.clock >= node_startup_timeout
       THEN call' = CallDone("false")
       ELSE \E o \in ProbeOutcomes(call.impl), d \in ProbeTimes :
               LET probed == [call EXCEPT
                                !.probes = @ + 1,
                                !.clock = @ + d,
                                !.ok_started = (IF ProbeSucceeded(o) THEN call.clock ELSE @),
                                !.ok_at = (IF ProbeSucceeded(o) THEN call.clock + d ELSE @)]
                   out == wait_for_node_probe(call.impl, o)
               IN call' =
                     IF out = "raise"
                     THEN [probed EXCEPT !.at = "done", !.result = "raise"]
                     ELSE IF out = "ready"
                     THEN [probed EXCEPT !.at = "done", !.result = "true"]
                     ELSE [probed EXCEPT !.clock = @ + probe_interval]
    /\ UNCHANGED run_state

\* ----------------------------------------------------------- specifications
Run ==
    \/ ManagerMain
    \/ StartNodes_Enter
    \/ StartNodes_Adjust
    \/ StartNodes_StartProcess
    \/ StartNodes_WaitForNode
    \/ StartNodes_CreateDid
    \/ StartNodes_Register
    \/ StartNodes_AddQuorum
    \/ StartNodes_SetupQuorum
    \/ StartNodes_GenerateTokens
    \/ StartNodes_CheckBalance
    \/ StartNodes_SaveMetadata
    \/ StartNodes_Summary
    \/ RestartMain
    \/ Restart_LoadMetadata
    \/ Restart_VerifyDirectories
    \/ Restart_StartProcess
    \/ Restart_WaitForNode
    \/ Restart_Register
    \/ Restart_BuildQuorumList
    \/ Restart_AddQuorum
    \/ Restart_SetupQuorum
    \/ Restart_GenerateTokens
    \/ Restart_CheckBalance
    \/ Restart_Summary
    \/ Main_Exit

Next == Run

\* Runs of the two scripts, one process each.
Spec == Init /\ [][Next]_vars

NextReentry == Run \/ StartNodesAgain

\* The same, and a host program that calls start_nodes again on its manager.
SpecReentry == Init /\ [][NextReentry]_vars

\* No run in progress, and no fleet on disk.
InitClient ==
    /\ Init
    /\ file = Absent
    /\ dirs = {}

NextClient ==
    \/ Client_Call
    \/ RegisterDid_Post
    \/ GenerateTestTokens_Post
    \/ SendSignatureResponse
    \/ VerifyTokenGeneration_Poll
    \/ WaitForNode_Enter
    \/ WaitForNode_Probe

\* The calls of RubixClient, one at a time, each followed through its requests.
SpecClient == InitClient /\ [][NextClient]_vars

\* A whole fleet on disk, with its directories.
InitLive ==
    /\ Init
    /\ file = FileOf(MkEntries(AllIndices, {}, FALSE))
    /\ dirs = Keys(file.entries)

\* python rubix_node_manager.py ..., run once
ManagerMain_Once == pc = "idle" /\ ManagerMain

\* python rubix_restart_setup.py, run once
RestartMain_Once == pc = "idle" /\ RestartMain

\* One run of one of the scripts from its command line to its exit, or a client
\* call followed on its own.
NextLive ==
    \/ ManagerMain_Once
    \/ StartNodes_Enter
    \/ StartNodes_Adjust
    \/ StartNodes_StartProcess
    \/ StartNodes_WaitForNode
    \/ StartNodes_CreateDid
    \/ StartNodes_Register
    \/ StartNodes_AddQuorum
    \/ StartNodes_SetupQuorum
    \/ StartNodes_GenerateTokens
    \/ StartNodes_CheckBalance
    \/ StartNodes_SaveMetadata
    \/ StartNodes_Summary
    \/ RestartMain_Once
    \/ Restart_LoadMetadata
    \/ Restart_VerifyDirectories
    \/ Restart_StartProcess
    \/ Restart_WaitForNode
    \/ Restart_Register
    \/ Restart_BuildQuorumList
    \/ Restart_AddQuorum
    \/ Restart_SetupQuorum
    \/ Restart_GenerateTokens
    \/ Restart_CheckBalance
    \/ Restart_Summary
    \/ Main_Exit
    \/ NextClient

\* Each script is one sequential process: as long as the calls it makes return,
\* it goes on to its next statement.
SpecLive == InitLive /\ [][NextLive]_vars /\ WF_vars(NextLive)

\* ------------------------------------------------------------------ properties
\* C1: in the fresh flow and in the restart flow, once starting the process or
\* waiting for readiness has failed for a node, the run is over and has failed:
\* the processes it has spawned are those of the nodes before the failing one in
\* processing order (and the failing node's own, if it was the wait that failed),
\* and no register, add-quorum, setup-quorum or token request has been sent.
C1_StartFailureAborts ==
    fatal.cause \in {"start", "wait"} =>
        LET order == IF script = "restart"
                     THEN [k \in 1 .. Len(file.entries) |-> file.entries[k].id]
                     ELSE [k \in 1 .. total_nodes |-> NodeId(k - 1)]
            at == CHOOSE k \in 1 .. Len(order) : order[k] = fatal.id
            upto == IF fatal.cause = "wait" THEN at ELSE at - 1
        IN /\ pc \in {"main", "exited"}
           /\ result \in {"false", "raise"}
           /\ procs = {order[k] : k \in 1 .. upto}
           /\ \A r \in reqs : r[1] = "create_did"

\* The second node of a fresh run did not become ready.
C1_Witness ==
    /\ pc = "main"
    /\ flow = "fresh"
    /\ fatal = [cause |-> "wait", id |-> NodeId(1)]
    /\ procs = {NodeId(0), NodeId(1)}
    /\ result = "false"

\* C2: when a fresh or restart run is over and nothing fatal happened in it,
\* every phase has sent its request to every node it applies to, whatever the
\* number of nodes whose request came back False: in each phase the successes
\* counted and the failures add up to the nodes of the phase, and the fresh
\* flow has gone on to store the metadata.
C2_NodeFailureDoesNotStop ==
    (pc = "main" /\ flow \in {"fresh", "restart"} /\ fatal.cause = "none"
        /\ result \in {"true", "false"} /\ nodes # <<>>) =>
        LET all == {nodes[k].id : k \in 1 .. Len(nodes)}
            identified == {nodes[k].id : k \in {j \in 1 .. Len(nodes) :
                                                  flow = "fresh" \/ nodes[j].did # ""}}
            quorum == {nodes[k].id : k \in {j \in 1 .. Len(nodes) :
                                              /\ nodes[j].is_quorum
                                              /\ flow = "fresh" \/ nodes[j].did # ""}}
            sent(op) == {r[2] : r \in {q \in reqs : q[1] = op}}
        IN /\ sent("register") = identified
           /\ sent("add_quorum") = all
           /\ sent("setup_quorum") = quorum
           /\ sent("generate") = identified
           /\ registration_success + failed.register = Cardinality(identified)
           /\ quorum_add_success + failed.add_quorum = Cardinality(all)
           /\ quorum_setup_success + failed.setup_quorum = Cardinality(quorum)
           /\ token_gen_success + failed.generate = Cardinality(identified)
           /\ flow = "fresh" => saves = 1

\* A fresh run is over in which each of the four phases had a node fail.
C2_Witness ==
    /\ pc = "main"
    /\ flow = "fresh"
    /\ fatal.cause = "none"
    /\ failed.register > 0
    /\ failed.add_quorum > 0
    /\ failed.setup_quorum > 0
    /\ failed.generate > 0
    /\ saves = 1

\* C3: a run in which a register, add-quorum, setup-quorum or token request met
\* a transport anomaly still sends every phase's request to every node and, in
\* the node manager, still stores the metadata.
C3_TransportAnomalyDoesNotStop ==
    (pc = "main" /\ fatal.cause = "transport") =>
        /\ result \in {"true", "false"}
        /\ \A k \in 1 .. Len(nodes) :
              nodes[k].did # "" =>
                 /\ Sent("register", nodes[k].id)
                 /\ Sent("add_quorum", nodes[k].id)
                 /\ Sent("generate", nodes[k].id)
        /\ script = "manager" => saves = 1

\* C4: a fresh or restart run that went through all its phases returns True
\* exactly when every count is full: registered, quorum-distributed and issued
\* equal the number of nodes, quorum-activated equals the number of quorum
\* nodes, and in the restart flow started equals the number of nodes.
C4_SuccessIffAllCountsFull ==
    (pc = "main" /\ flow \in {"fresh", "restart"} /\ fatal.cause = "none"
        /\ nodes # <<>>) =>
        LET quorum == {k \in 1 .. Len(nodes) : nodes[k].is_quorum}
            full == /\ registration_success = Len(nodes)
                    /\ quorum_add_success = Len(nodes)
                    /\ quorum_setup_success = Cardinality(quorum)
                    /\ token_gen_success = Len(nodes)
                    /\ flow = "restart" => started_nodes = Len(nodes)
        IN /\ result \in {"true", "false"}
           /\ result = "true" <=> full

\* C5: a process whose run could not proceed (start, readiness, identity
\* creation, metadata load) exits with a non-zero status, and one whose run went
\* through all phases with some node failing in registration, quorum
\* distribution, quorum activation or issuance exits with 0 after a warning.
C5_ExitStatusTellsFatalFromPartial ==
    pc = "exited" =>
        /\ fatal.cause \in {"start", "wait", "create_did", "load"} => exit_code # 0
        /\ (/\ fatal.cause = "none"
            /\ flow \in {"fresh", "restart"}
            /\ \/ failed.register > 0
               \/ failed.add_quorum > 0
               \/ failed.setup_quorum > 0
               \/ failed.generate > 0) => (exit_code = 0 /\ warned)

\* C6: when start_nodes has adjusted the node set from stored metadata and
\* returns True, every selected node has been started, registered, given the
\* quorum list and issued tokens, every selected quorum node has been set up,
\* and the metadata has been stored.
C6_AdjustmentRunsThePhases ==
    (pc = "main" /\ flow = "adjust" /\ result = "true") =>
        /\ procs = Keys(nodes)
        /\ \A k \in 1 .. Len(nodes) :
              /\ Sent("register", nodes[k].id)
              /\ Sent("add_quorum", nodes[k].id)
              /\ nodes[k].is_quorum => Sent("setup_quorum", nodes[k].id)
              /\ Sent("generate", nodes[k].id)
        /\ \A r \in reqs : r[1] # "create_did"
        /\ saves = 1

\* C7: after an adjustment with requested count N over the stored metadata M,
\* the active nodes are the quorum records of M and those transaction records
\* of M that have fewer than N transaction records of M below them by index.
C7_AdjustmentSelection ==
    (pc = "main" /\ flow = "adjust" /\ result = "true") =>
        LET M == file.entries
            N == transaction_node_count
            quorum == {k \in 1 .. Len(M) : M[k].is_quorum}
            txn == {k \in 1 .. Len(M) : ~M[k].is_quorum}
            lowest == {k \in txn :
                         Cardinality({j \in txn : NodeIndex(M[j].id) < NodeIndex(M[k].id)}) < N}
        IN Keys(nodes) = {M[k].id : k \in quorum \cup lowest}

\* Two transaction nodes were asked for over metadata that lacks the second
\* transaction node: the first and the third are the active ones.
C7_Witness ==
    /\ pc = "main"
    /\ flow = "adjust"
    /\ result = "true"
    /\ transaction_node_count = 2
    /\ ~HasKey(file.entries, NodeId(quorum_node_count + 1))
    /\ HasKey(nodes, NodeId(quorum_node_count))
    /\ HasKey(nodes, NodeId(quorum_node_count + 2))

\* C8: no step of a run that takes the adjustment flow changes the metadata
\* file: every record stays, with the values it had.
C8_AdjustmentKeepsTheFile ==
    [][flow' = "adjust" => file' = file]_vars

\* An adjustment is over that left stored transaction records out of the
\* active set, and the file still holds all of them.
C8_Witness ==
    /\ pc = "exited"
    /\ flow = "adjust"
    /\ exit_code = 0
    /\ prev_adjust.last.ids # {}
    /\ prev_adjust.last.ids # Keys(file.entries)
    /\ prev_adjust.last.ids \subseteq Keys(file.entries)
    /\ file.entries = prev_adjust.metadata

\* C9: an adjustment selects the node ids that every earlier adjustment with
\* the same requested count over the same metadata selected, whatever self.nodes
\* held before it.
C9_AdjustmentDeterministic ==
    [][(pc = "adjust" /\ pc' = "main" /\ result' = "true"
          /\ prev_adjust.metadata = manager_load_metadata(file)) =>
          \A r \in prev_adjust.results :
             r.requested = transaction_node_count => r.ids = Keys(nodes')]_vars

\* A request was repeated by a manager whose node map held the selection of a
\* different request in between.
C9_Witness ==
    /\ pc = "main"
    /\ flow = "adjust"
    /\ result = "true"
    /\ prev_adjust.again
    /\ prev_adjust.before # {}
    /\ prev_adjust.before # prev_adjust.last.ids
    /\ Keys(nodes) = prev_adjust.last.ids

\* C10: a run that got past what is fatal to it, in any of the three flows, has
\* stored the metadata exactly once when it returns.
C10_StoredOncePerRun ==
    (pc = "main" /\ flow \in {"fresh", "restart", "adjust"} /\ fatal.cause = "none"
        /\ result \in {"true", "false"}) => saves = 1

\* C11: in every state the metadata file is absent or holds a complete JSON
\* document, the one an earlier run left or the one this run has dumped; a
\* document cut short is never on disk.
C11_FileNeverPartial ==
    file.exists => file.complete

\* C12: a fresh run that has called _save_metadata returns True whether or not
\* the file now holds what it meant to store; and a restart or adjustment whose
\* metadata could not be loaded is over, has returned False, and has started no
\* node and sent no request.
C12_SaveFailureWarnsLoadFailureAborts ==
    /\ (pc = "main" /\ flow = "fresh" /\ saves = 1) => result = "true"
    /\ fatal.cause = "load" =>
          /\ flow \in {"restart", "adjust"}
          /\ pc \in {"main", "exited"}
          /\ result = "false"
          /\ procs = {}
          /\ reqs = {}

\* A fresh run has returned True although its dump was cut short.
C12_Witness ==
    /\ pc = "main"
    /\ flow = "fresh"
    /\ saves = 1
    /\ file = Truncated
    /\ result = "true"

\* C13: a restart or adjustment over metadata in which some entry lacks a key
\* from_dict needs, or has no identity or an empty one, starts no node, sends
\* no request and does not return True.
C13_AnomalousMetadataAborts ==
    LET M == file.entries
        anomalous == \E k \in 1 .. Len(M) :
                        ~WellFormed(M[k]) \/ Get(M[k], "did", "") = ""
    IN (flow \in {"restart", "adjust"} /\ file.exists /\ file.complete /\ anomalous) =>
          /\ procs = {}
          /\ reqs = {}
          /\ result # "true"

\* C14: a restart or adjustment over a metadata file that holds no entry, and a
\* restart without a metadata file, start no node and send no request and
\* return False; and start_nodes called without fresh, with a count in range
\* and no metadata file, takes the fresh flow.
C14_EmptyFileIsAnError ==
    [][/\ ((\/ flow' \in {"restart", "adjust"} /\ file' = FileOf(<<>>)
            \/ flow' = "restart" /\ ~file'.exists) =>
              /\ pc' \in {"adjust", "r_load", "main", "exited"}
              /\ procs' = {}
              /\ reqs' = {}
              /\ pc' \in {"main", "exited"} => result' = "false")
       /\ (/\ pc = "start_nodes"
           /\ transaction_node_count \in min_transaction_nodes .. max_transaction_nodes
           /\ ~fresh
           /\ ~file.exists) => flow' = "fresh"]_vars

\* An adjustment over a file that holds {} has returned False.
C14_Witness ==
    /\ pc = "main"
    /\ flow = "adjust"
    /\ file = FileOf(<<>>)
    /\ result = "false"
    /\ procs = {}

\* C15: a step removes the metadata file or a node directory only if it is
\* start_nodes getting past its range check with fresh set; that step removes
\* the file and every node directory, and no node has been started when it is
\* taken. No step of a call with fresh = FALSE, and none of a call refused for
\* its count, removes either.
C15_CleanupOnlyOnFresh ==
    [][LET accepted == /\ pc = "start_nodes"
                       /\ transaction_node_count \in
                             min_transaction_nodes .. max_transaction_nodes
                       /\ fresh
       IN /\ ((file.exists /\ ~file'.exists) \/ ~(dirs \subseteq dirs')) => accepted
          /\ accepted => (~file'.exists /\ dirs' = {} /\ procs = {} /\ procs' = {})]_vars

\* C15 as the specification states it: whenever start_nodes is called with
\* fresh set, the metadata file and the node directories are removed.
C15_CleanupIffFreshGiven ==
    [][/\ ((file.exists /\ ~file'.exists) \/ ~(dirs \subseteq dirs')) =>
              (pc = "start_nodes" /\ fresh)
       /\ (pc = "start_nodes" /\ fresh) => (~file'.exists /\ dirs' = {})]_vars

\* A call without fresh found no metadata file and is about to start the
\* first node of a new fleet; the node directories of an earlier run are there.
C15_Witness ==
    /\ pc = "p1_start"
    /\ i = 0
    /\ flow = "fresh"
    /\ ~fresh
    /\ dirs # {}
    /\ procs = {}

\* C16: once create_did has raised for a node of a fresh run, the run is over
\* and has returned False; the nodes started and the nodes asked for an
\* identity are those up to that node, and no other request has been sent.
C16_IdentityFailureAborts ==
    fatal.cause = "create_did" =>
        LET upto == {NodeId(j) : j \in 0 .. NodeIndex(fatal.id)}
        IN /\ flow = "fresh"
           /\ pc \in {"main", "exited"}
           /\ result = "false"
           /\ procs = upto
           /\ reqs = {<<"create_did", id, "">> : id \in upto}

\* create_did raised for the first transaction node of a fresh run.
C16_Witness ==
    /\ pc = "main"
    /\ fatal = [cause |-> "create_did", id |-> NodeId(quorum_node_count)]
    /\ Len(nodes) = quorum_node_count
    /\ result = "false"

\* C17: a restart run sends no create-did request; the identity in each of its
\* register, setup-quorum and token requests is the one the metadata file holds
\* for the node the request goes to, every address in a quorum list it sends
\* is the stored identity of a stored quorum record, and every record in memory
\* has the identity the file holds for it.
C17_RestartKeepsIdentities ==
    flow = "restart" =>
        LET M == file.entries
            stored(id) == Get(Lookup(M, id), "did", "")
        IN /\ \A r \in reqs :
                 /\ r[1] # "create_did"
                 /\ r[1] \in {"register", "setup_quorum", "generate"} =>
                       (HasKey(M, r[2]) /\ r[3] = stored(r[2]))
                 /\ r[1] = "add_quorum" =>
                       \A e \in 1 .. Len(r[3]) :
                          \E k \in 1 .. Len(M) :
                             /\ Get(M[k], "is_quorum", FALSE)
                             /\ Get(M[k], "did", "") = r[3][e].address
           /\ \A k \in 1 .. Len(nodes) :
                 HasKey(M, nodes[k].id) /\ nodes[k].did = stored(nodes[k].id)

\* A restart has returned True after sending its requests to every node.
C17_Witness ==
    /\ pc = "main"
    /\ flow = "restart"
    /\ result = "true"
    /\ \A k \in 1 .. Len(nodes) :
          Sent("register", nodes[k].id) /\ Sent("generate", nodes[k].id)
    /\ Len(nodes) = total_nodes

\* C18: in a fresh or restart run, every quorum list sent to a node holds one
\* entry of type 2 for each record in memory that has the quorum role and a
\* non-empty identity, and nothing else: as many entries as such records, their
\* addresses those records' identities, none of them empty.
C18_QuorumListOfIdentifiedQuorumNodes ==
    (flow \in {"fresh", "restart"} /\ pc # "exited") =>
        LET Q == {k \in 1 .. Len(nodes) : nodes[k].is_quorum /\ nodes[k].did # ""}
        IN \A r \in reqs :
              r[1] = "add_quorum" =>
                 /\ Len(r[3]) = Cardinality(Q)
                 /\ {r[3][e].address : e \in 1 .. Len(r[3])} = {nodes[k].did : k \in Q}
                 /\ \A e \in 1 .. Len(r[3]) : r[3][e].type = 2 /\ r[3][e].address # ""

\* C19: in a fresh run a record has the quorum role exactly when its index is
\* below quorum_node_count; once Phase 1 is through there are quorum_node_count
\* quorum records among quorum_node_count + max_transaction_nodes, and the file
\* the run stores says the same; a restart or adjustment gives each record the
\* role the file holds for it; and no step changes the role of a record.
C19_RolesFixedByIndex ==
    [][/\ flow' = "fresh" =>
             /\ \A k \in 1 .. Len(nodes') :
                   nodes'[k].is_quorum <=> NodeIndex(nodes'[k].id) < quorum_node_count
             /\ pc' \in {"register", "add_quorum", "setup_quorum", "tokens", "balance",
                          "save", "summary"} =>
                   /\ Keys(nodes') = {NodeId(j) : j \in 0 .. (total_nodes - 1)}
                   /\ Cardinality({k \in 1 .. Len(nodes') : nodes'[k].is_quorum})
                         = quorum_node_count
             /\ (file'.exists /\ file'.complete) =>
                   /\ Len(file'.entries) = quorum_node_count + max_transaction_nodes
                   /\ \A k \in 1 .. Len(file'.entries) :
                         file'.entries[k].is_quorum
                            <=> NodeIndex(file'.entries[k].id) < quorum_node_count
       /\ flow' \in {"restart", "adjust"} =>
             \A k \in 1 .. Len(nodes') :
                nodes'[k].is_quorum
                   = Get(Lookup(file'.entries, nodes'[k].id), "is_quorum", FALSE)
       /\ \A k \in 1 .. Len(nodes) :
             HasKey(nodes', nodes[k].id) =>
                Lookup(nodes', nodes[k].id).is_quorum = nodes[k].is_quorum]_vars

\* A fresh run has stored its fleet and returned.
C19_Witness ==
    /\ pc = "main"
    /\ flow = "fresh"
    /\ result = "true"
    /\ Len(nodes) = total_nodes
    /\ file = FileOf(MetadataOf(nodes))
    /\ nodes[quorum_node_count].is_quorum
    /\ ~nodes[quorum_node_count + 1].is_quorum

\* C20: the count start_nodes is called with is the count the run works with,
\* and a call of start_nodes that returns True leaves an active set with that
\* many transaction nodes and quorum_node_count quorum nodes.
C20_RequestedCountIsTheFleetSize ==
    [][/\ (pc = "start_nodes" /\ pc' # "main") =>
             transaction_node_count' = transaction_node_count
       /\ (script' = "manager" /\ pc # "main" /\ pc' = "main" /\ result' = "true") =>
             /\ Cardinality({k \in 1 .. Len(nodes') : ~nodes'[k].is_quorum})
                   = transaction_node_count'
             /\ Cardinality({k \in 1 .. Len(nodes') : nodes'[k].is_quorum})
                   = quorum_node_count]_vars

\* C21: within a run (from the call of start_nodes or restart_nodes to its
\* return), a record of self.nodes whose identity is non-empty stays in
\* self.nodes with the same identity at every later step of the run.
C21_IdentityNeverOverwritten ==
    [][(pc \notin {"idle", "exited", "main"}) =>
          \A k \in 1 .. Len(nodes) :
             nodes[k].did # "" =>
                /\ HasKey(nodes', nodes[k].id)
                /\ Lookup(nodes', nodes[k].id).did = nodes[k].did]_vars

\* A run that has sent the registration of a node with a non-empty identity and
\* has gone on to the phases after it.
C21_Witness ==
    /\ pc \in {"save", "r_summary"}
    /\ \E k \in 1 .. Len(nodes) :
          /\ nodes[k].did # ""
          /\ Sent("register", nodes[k].id)
          /\ Sent("generate", nodes[k].id)

\* C22: a register_did call whose answer says "Password needed" returns True
\* only after a signature-response with the challenge's id and mode and the
\* password has been submitted and accepted.
C22_ChallengedRegistrationCompletes ==
    (/\ call.fn = "register_did"
     /\ call.at = "done"
     /\ PasswordNeeded(call.response)
     /\ call.result = "true")
    => /\ call.sig_sent
       /\ call.sig_accepted
       /\ call.sig_payload = SignaturePayload(ChallengeOf(call.response),
                                              default_priv_key_password)

\* C23: generate_test_tokens returns True only after a balance poll has read
\* more than 0; a call makes at most max_attempts polls, the failed ones
\* counted, and returns False when it has made them all without reading more
\* than 0.
C23_TokensVerifiedWithinTenPolls ==
    call.fn = "generate_test_tokens" =>
       /\ call.polls <= max_attempts
       /\ call.result = "true" => call.positive
       /\ (call.at = "done" /\ call.polls = max_attempts /\ ~call.positive)
             => call.result = "false"

\* A call that has used up its polls, some of them failed, and returned False.
C23_Witness ==
    /\ call.fn = "generate_test_tokens"
    /\ call.at = "done"
    /\ call.polls = max_attempts
    /\ call.poll_errors > 0
    /\ call.poll_errors < max_attempts
    /\ call.result = "false"

\* C27: in both clients wait_for_node returns True or False and never raises,
\* and returns True exactly when a probe that began before the timeout had
\* elapsed has succeeded.
C27_WaitForNodeContract ==
    (call.fn = "wait_for_node" /\ call.at = "done") =>
       /\ call.result \in {"true", "false"}
       /\ call.result = "true" <=>
             (call.ok_at >= 0 /\ call.ok_started < node_startup_timeout)

\* C27 as stated: True exactly when a probe has succeeded before the timeout
\* had elapsed.
C27_SucceededBeforeTimeout ==
    (call.fn = "wait_for_node" /\ call.at = "done") =>
       /\ call.result \in {"true", "false"}
       /\ call.result = "true" <=>
             (call.ok_at >= 0 /\ call.ok_at < node_startup_timeout)

\* The restart script's wait_for_node has returned True on a later probe whose
\* answer came when the timeout had elapsed.
C27_Witness ==
    /\ call.fn = "wait_for_node"
    /\ call.impl = "restart"
    /\ call.at = "done"
    /\ call.probes >= 2
    /\ call.ok_at >= node_startup_timeout
    /\ call.result = "true"

\* C24: in the token phase of either script a node is counted as failed only
\* when its max_retries attempts have been used up.
C24_FailedOnlyAfterTwoAttempts ==
    [][(failed'.generate = failed.generate + 1) => attempt = max_retries]_vars

\* C25: once generate_test_tokens has returned True for a node, which it does
\* only after a balance poll has read more than 0, no further
\* generate-test-token request is made for that node in the run.
C25_NoIssuanceAfterPositiveBalance ==
    [][/\ pc = "balance" => ~(pc' = "tokens" /\ cursor' = cursor)
       /\ pc = "r_balance" => ~(pc' = "r_tokens" /\ cursor' = cursor)]_vars

\* The seven fields of a stored node.
SevenFields ==
    {"id", "server_port", "grpc_port", "did", "peer_id", "is_quorum", "status"}

\* Every entry of the document has the seven fields and no other.
WellFormedFleet(metadata) ==
    \A k \in 1 .. Len(metadata) : DOMAIN metadata[k] = SevenFields

\* The document as a mapping, whatever the order of its entries.
Mapping(metadata) == {metadata[k] : k \in 1 .. Len(metadata)}

\* C26: over a metadata file whose entries all have the seven fields, the
\* document that _save_metadata would write from the records loaded from the
\* file is the file's document as a mapping (restart, which loads every entry);
\* the records an adjustment selects would be written as they are in the file.
C26_MetadataRoundTrip ==
    (file.exists /\ file.complete /\ WellFormedFleet(file.entries)) =>
       /\ (script = "restart" /\ pc \notin {"idle", "r_load", "exited"})
             => Mapping(MetadataOf(nodes)) = Mapping(file.entries)
       /\ (flow = "adjust" /\ pc = "main" /\ result = "true")
             => Mapping(MetadataOf(nodes)) \subseteq Mapping(file.entries)

\* A restart has loaded a file whose entries are stored in descending order.
C26_Witness ==
    /\ script = "restart"
    /\ pc = "r_verify"
    /\ Len(file.entries) = total_nodes
    /\ file.entries[1].id = NodeId(total_nodes - 1)
    /\ WellFormedFleet(file.entries)
    /\ Len(nodes) = total_nodes

\* C28: no node without the quorum role is sent setup_quorum, and a fresh run
\* or a restart that has gone through its phases has sent it to every node of
\* self.nodes with the quorum role.
C28_QuorumActivationByRole ==
    /\ pc # "exited" =>
          \A r \in reqs :
             r[1] = "setup_quorum" =>
                HasKey(nodes, r[2]) /\ Lookup(nodes, r[2]).is_quorum
    /\ (pc = "main" /\ fatal.cause = "none" /\ flow \in {"fresh", "restart"}) =>
          \A k \in 1 .. Len(nodes) :
             nodes[k].is_quorum => Sent("setup_quorum", nodes[k].id)

\* C29: a call of start_nodes with a count outside the range raises and leaves
\* the metadata file, the node directories, self.nodes, the processes and the
\* requests as they were.
C29_OutOfRangeRejectedFirst ==
    [][(/\ pc = "start_nodes"
        /\ \/ transaction_node_count < min_transaction_nodes
           \/ transaction_node_count > max_transaction_nodes) =>
          /\ pc' = "main"
          /\ result' = "raise"
          /\ file' = file
          /\ dirs' = dirs
          /\ nodes' = nodes
          /\ procs' = procs
          /\ reqs' = reqs]_vars

\* A manager that holds nodes, over a stored fleet, has refused a call with the
\* fresh directive and a count outside the range.
C29_Witness ==
    /\ pc = "main"
    /\ fatal.cause = "args"
    /\ fresh
    /\ file.exists
    /\ dirs # {}
    /\ nodes # <<>>

\* C30: in a fresh run no identity is created before every node has been
\* started and found ready, no registration is sent before every identity has
\* been created, and each later phase starts after the one before it has gone
\* through every node.
C30_PhasesOneAfterAnother ==
    (flow = "fresh" /\ pc \notin {"idle", "exited"}) =>
       /\ (\E r \in reqs : r[1] = "create_did") =>
             procs = {NodeId(k) : k \in AllIndices}
       /\ (\E r \in reqs : r[1] = "register") =>
             \A k \in AllIndices : Sent("create_did", NodeId(k))
       /\ (\E r \in reqs : r[1] = "add_quorum") =>
             \A k \in AllIndices : Sent("register", NodeId(k))
       /\ (\E r \in reqs : r[1] = "setup_quorum") =>
             \A k \in AllIndices : Sent("add_quorum", NodeId(k))

\* C31: in the start phase and in the quorum distribution, which go through
\* every node, a node is processed only when every node of self.nodes with a
\* lower index has been: the processes started, and the nodes sent add_quorum,
\* are at each moment the lowest indices of the fleet.
C31_AscendingIndexOrder ==
    pc \notin {"idle", "exited"} =>
       \A k \in 1 .. Len(nodes), m \in 1 .. Len(nodes) :
          NodeIndex(nodes[m].id) < NodeIndex(nodes[k].id) =>
             /\ nodes[k].id \in procs => nodes[m].id \in procs
             /\ Sent("add_quorum", nodes[k].id) => Sent("add_quorum", nodes[m].id)

\* C32: every add_quorum request of a run carries the same list, the one the
\* run holds, and none is sent before every node of the fleet has its identity
\* result: in the fresh flow every index has a record, in the restart flow the
\* list has an entry for every loaded quorum record with an identity.
C32_QuorumListCompleteBeforeDistribution ==
    pc \notin {"idle", "exited"} =>
       \A r \in reqs :
          r[1] = "add_quorum" =>
             /\ r[3] = quorum_list
             /\ flow = "fresh" =>
                   /\ \A k \in AllIndices : Sent("create_did", NodeId(k))
                   /\ Len(nodes) = total_nodes
                   /\ Len(r[3]) = quorum_node_count
                   /\ \A k \in 1 .. Len(r[3]) : r[3][k] = QuorumEntry(nodes[k].did)
             /\ flow = "restart" =>
                   /\ Len(nodes) = Len(file.entries)
                   /\ \A k \in 1 .. Len(nodes) :
                         (nodes[k].is_quorum /\ nodes[k].did # "")
                            <=> (\E q \in 1 .. Len(r[3]) :
                                    r[3][q] = QuorumEntry(nodes[k].did))

\* A fresh run has sent the list of its quorum nodes to every node.
C32_Witness ==
    /\ flow = "fresh"
    /\ pc = "setup_quorum"
    /\ Len(quorum_list) = quorum_node_count
    /\ \A k \in AllIndices : Sent("add_quorum", NodeId(k))

\* C33: no step of a run stops a process the run has started, removes a node
\* directory, unlinks the metadata file or takes back a request; the one
\* deletion, that of a fresh start, comes before anything is started.
C33_ForwardOnly ==
    [][(pc \notin {"idle", "exited", "start_nodes"}) =>
          /\ procs \subseteq procs'
          /\ dirs \subseteq dirs'
          /\ reqs \subseteq reqs'
          /\ file.exists => file'.exists
          /\ pc # "main" =>
                \A k \in 1 .. Len(nodes) :
                   /\ HasKey(nodes', nodes[k].id)
                   /\ Lookup(nodes', nodes[k].id).did = nodes[k].did]_vars

\* A fresh run has aborted at the third node, whose identity could not be
\* created: the three processes are running and the first two identities exist.
C33_Witness ==
    /\ pc = "main"
    /\ fatal = [cause |-> "create_did", id |-> NodeId(2)]
    /\ procs = {NodeId(0), NodeId(1), NodeId(2)}
    /\ Keys(nodes) = {NodeId(0), NodeId(1)}
    /\ \A k \in 1 .. Len(nodes) : nodes[k].did # ""
    /\ {NodeId(0), NodeId(1), NodeId(2)} \subseteq dirs

\* C34: the record of a node whose process the run has started has the status
\* "running".
C34_StatusFollowsProcess ==
    pc \notin {"idle", "exited"} =>
       \A k \in 1 .. Len(nodes) :
          nodes[k].id \in procs => nodes[k].status = "running"

\* C35: each success counter is at most the number of nodes its phase has gone
\* through: the nodes before the current one while the phase is under way, and
\* no more than all the nodes at any time.
C35_CountersBounded ==
    /\ registration_success <= Len(nodes)
    /\ quorum_add_success <= Len(nodes)
    /\ quorum_setup_success <= Cardinality({k \in 1 .. Len(nodes) : nodes[k].is_quorum})
    /\ token_gen_success <= Len(nodes)
    /\ started_nodes <= Len(nodes)
    /\ pc \in {"r_start", "r_wait"} => started_nodes <= cursor - 1
    /\ pc \in {"register", "r_register"} => registration_success <= cursor - 1
    /\ pc \in {"add_quorum", "r_add_quorum"} => quorum_add_success <= cursor - 1
    /\ pc \in {"setup_quorum", "r_setup_quorum"} =>
          quorum_setup_success
             <= Cardinality({k \in 1 .. (cursor - 1) : nodes[k].is_quorum})
    /\ pc \in {"tokens", "balance", "r_tokens", "r_balance"} =>
          token_gen_success <= cursor - 1
    /\ pc \in {"p1_start", "p1_wait", "p1_did", "r_start", "r_wait"} =>
          /\ registration_success = 0
          /\ quorum_add_success = 0
          /\ quorum_setup_success = 0
          /\ token_gen_success = 0

\* A node is on its second attempt, its balance about to be read, and every
\* node before it has been counted.
C35_Witness ==
    /\ pc = "balance"
    /\ attempt = max_retries
    /\ cursor >= 2
    /\ token_gen_success = cursor - 1

\* C37: a restart creates no node directory and copies nothing into one; it
\* starts a process only when the directory of every loaded node, with its
\* three artifacts, is in place; and when one is not, the verification step
\* returns the failure with no process started.
C37_DirectoriesVerifiedBeforeStart ==
    [][script' = "restart" =>
          /\ dirs' = dirs
          /\ procs' # {} => Keys(nodes') \subseteq dirs'
          /\ (pc = "r_verify" /\ ~(Keys(nodes) \subseteq dirs)) =>
                /\ pc' = "main"
                /\ result' = "false"
                /\ fatal'.cause = "verify"
                /\ procs' = {}]_vars

\* A restart over a complete fleet whose first node has lost its directory has
\* returned from the verification.
C37_Witness ==
    /\ script = "restart"
    /\ pc = "main"
    /\ fatal.cause = "verify"
    /\ Len(nodes) = total_nodes
    /\ NodeId(0) \notin dirs
    /\ procs = {}

\* C38: a fresh run that has aborted in the platform setup, in the start of a
\* process, in the readiness wait or in the creation of an identity has not
\* written the metadata file, and no metadata file exists.
C38_AbortedFreshRunWritesNothing ==
    (flow = "fresh" /\ pc = "main"
        /\ fatal.cause \in {"platform", "start", "wait", "create_did"}) =>
       /\ saves = 0
       /\ ~file.exists

\* A run given --fresh over a stored fleet has aborted in the readiness wait of
\* its second node.
C38_Witness ==
    /\ flow = "fresh"
    /\ fresh
    /\ pc = "main"
    /\ fatal = [cause |-> "wait", id |-> NodeId(1)]
    /\ procs = {NodeId(0), NodeId(1)}
    /\ saves = 0

\* C39: a restart sends no registration, issuance or quorum setup request for a
\* node without an identity and puts no empty address on the quorum list, and
\* when some of the loaded nodes, not all, have no identity its result is never
\* success.
C39_EmptyIdentitySkippedButCounted ==
    (flow = "restart" /\ pc \notin {"idle", "exited"}) =>
       /\ \A k \in 1 .. Len(nodes) :
             nodes[k].did = "" =>
                /\ ~Sent("register", nodes[k].id)
                /\ ~Sent("setup_quorum", nodes[k].id)
                /\ ~Sent("generate", nodes[k].id)
       /\ \A q \in 1 .. Len(quorum_list) : quorum_list[q].address # ""
       /\ (pc = "main" /\ NodesWithDids(nodes) < Len(nodes)) => result # "true"

\* A restart over a fleet two of whose nodes have no identity has gone through
\* every phase without a request failing, and has returned failure.
C39_Witness ==
    /\ flow = "restart"
    /\ pc = "main"
    /\ fatal = NoFatal
    /\ failed = NoFailures
    /\ result = "false"
    /\ 0 < NodesWithDids(nodes)
    /\ NodesWithDids(nodes) < Len(nodes)
    /\ Keys(nodes) = procs
    /\ \A k \in 1 .. Len(nodes) :
          /\ Sent("add_quorum", nodes[k].id)
          /\ nodes[k].did # "" => Sent("register", nodes[k].id) /\ Sent("generate", nodes[k].id)

\* C36: every run of start_nodes and restart_nodes that has begun comes to its
\* return, and every client call that is followed comes to its end; a node has
\* at most max_retries issuance attempts, each with at most max_attempts balance
\* polls inside the call and one balance read after it; the readiness loop makes
\* no probe after one has succeeded or after the timeout; and within a phase the
\* loop goes from a node only to the next one.
C36_EveryRunTerminates ==
    /\ (pc \notin {"idle", "exited", "main"}) ~> (pc = "main")
    /\ (pc = "main") ~> (pc = "exited")
    /\ (call.at \notin {"idle", "done"}) ~> (call.at = "done")
    /\ [](attempt \in 1 .. max_retries)
    /\ [](call.polls <= max_attempts)
    /\ [](call.at = "probe" => call.ok_at = -1)
    /\ [][/\ (call.at = "probe" /\ call.clock >= node_startup_timeout) =>
                call'.at = "done"
          /\ pc = "balance" => pc' \in {"tokens", "save", "r_tokens", "r_summary", "main"}
          /\ (pc \in {"p1_start", "p1_wait", "p1_did"} /\ pc' = "p1_start") =>
                i' = i + 1
          /\ (pc' = pc /\ pc \in {"register", "add_quorum", "setup_quorum",
                                  "r_register", "r_add_quorum", "r_setup_quorum"}) =>
                cursor' = cursor + 1
          /\ (pc \in {"r_start", "r_wait"} /\ pc' = "r_start") =>
                cursor' = cursor + 1
          /\ (pc \in {"tokens", "balance", "r_tokens", "r_balance"}
                /\ pc' \in {"tokens", "balance", "r_tokens", "r_balance"}) =>
                \/ cursor' = cursor /\ attempt' >= attempt
                \/ cursor' = cursor + 1 /\ attempt' = 1]_vars

\* A restart has come to its end after every node had its issuance fail.
C36_Witness ==
    /\ flow = "restart"
    /\ pc = "main"
    /\ fatal = NoFatal
    /\ Len(nodes) = total_nodes
    /\ token_gen_success = 0
    /\ failed.generate = total_nodes

====
